---- MODULE Spec2Model ----
(***************************************************************************)
(* V3CTK: the encode scheduler (src/src/encoder/tmc2_encoder.py, driven by *)
(* src/src/main.py), the job graph builder, the V3C sample-stream parser   *)
(* and multiplexer (src/multiplexer.py), the tile generator                *)
(* (src/src/tile_generator.py, src/src/tile_io.py) and the start of main.  *)
(*                                                                         *)
(* Several specifications share the module:                                *)
(*   Spec        the pipeline's main thread, the SIGTERM/SIGINT handler,   *)
(*               the encoder worker threads and the worker processes;      *)
(*   SpecBuild   encode_tiles_with_qp_pairs up to the job list, over       *)
(*               concrete tile directories and QP lists;                   *)
(*   SpecParse   parse_v3c_units over concrete byte strings;               *)
(*   SpecCombine combine_per_segment over concrete track files;            *)
(*   SpecCell    the cell of one point in a segment's grid;                *)
(*   SpecTile    generate_tiles_from_frames over concrete frames;          *)
(*   SpecConfig  main() from the parsed command line to the first stage;   *)
(*   SpecTask    the parameters, output and log file of each job;          *)
(*   SpecProgress the progress section of encode_task in worker threads;   *)
(*   SpecEscalate the signals sent to running jobs on cancellation;        *)
(*   SpecServer  the /api/run handler and monitor threads of src/server.py.*)
(* Each specification leaves the other groups of variables untouched.      *)
(***************************************************************************)
EXTENDS Integers, Sequences, FiniteSets, TLC

(* ------------------------------ bounds -------------------------------- *)
\* jobs of the batch run by the scheduler (len(tasks))
NumJobs == 3
\* max_parallel_encodes is drawn from 1..MaxParallel
MaxParallel == 2
\* qp_pairs has at most MaxQP entries
MaxQP == 2
\* tiles_root has at most MaxTiles tile directories
MaxTiles == 2
\* a sample stream has at most MaxLen bytes
MaxLen == 5
\* each track directory holds at most MaxSegments segment files
MaxSegments == 2
\* n_x, n_y and n_z are drawn from 1..MaxGrid
MaxGrid == 2
\* generate_tiles_from_frames is given at most MaxFrames frames
MaxFrames == 3
\* segment_size is drawn from 1..MaxSegmentSize
MaxSegmentSize == 2
\* the control server handles at most MaxRequests /api/run requests
MaxRequests == 3
\* the integer options of the command line are drawn from -1..MaxArg
MaxArg == 2

Jobs == 1..NumJobs

VARIABLES
  \* ---- scheduler (Spec) ----
  mainpc,                \* position of the pipeline's main thread
  raised,                \* exception propagating in the main thread
  max_parallel_encodes,  \* argument of encode_tiles_with_qp_pairs
  stop_event,            \* main.py's threading.Event
  CANCEL_REQUESTED,      \* TMC2EncoderRunner.CANCEL_REQUESTED
  CANCEL_EVENT,          \* TMC2EncoderRunner.CANCEL_EVENT
  ACTIVE_PROCS,          \* TMC2EncoderRunner.ACTIVE_PROCS (jobs' Popen objects)
  ACTIVE_CONTAINERS,     \* TMC2EncoderRunner.ACTIVE_CONTAINERS (jobs' names)
  capc,                  \* position inside cancel_all(), per caller
  next_task_idx,         \* index of the next task to dispatch (0-based)
  in_flight,             \* futures not yet collected by the dispatch loop
  cancelled,             \* encode_tiles_with_qp_pairs' local flag
  completed_tasks,       \* the progress counter
  wpc,                   \* per job: position inside encode_task / run
  proc,                  \* per job: worker process "none" | "alive" | "exited"
  outcome,               \* per job: "none" | "succeeded" | "failed" | "cancelled"
  exc,                   \* per job: exception leaving encode_task
  killed,                \* per job: _kill_container was called on its container
  \* ---- job graph builder (SpecBuild) ----
  bpc,                   \* position inside encode_tiles_with_qp_pairs
  bexc,                  \* exception leaving encode_tiles_with_qp_pairs
  qp_pairs,              \* argument: the QP list
  tiles_root,            \* argument: the directory, its tile dirs and files
  normalized_pairs,      \* local of encode_tiles_with_qp_pairs
  tile_infos,            \* local of encode_tiles_with_qp_pairs
  tasks,                 \* local: the job list
  dispatched,            \* tasks handed to encode_task, in order
  \* ---- sample-stream parser (SpecParse) ----
  ppc,                   \* position inside the generator parse_v3c_units
  pexc,                  \* exception leaving the generator
  data,                  \* argument: the bytes of one track
  size_len,              \* local of parse_v3c_units
  offset,                \* local of parse_v3c_units
  units,                 \* the (unit_type, full_unit_bytes) yielded so far
  \* ---- multiplexer (SpecCombine) ----
  cpc,                   \* position inside combine_per_segment
  cexc,                  \* exception leaving combine_per_segment
  track_len,             \* len(atlas), len(occp), len(geom), len(attr)
  track_data,            \* the bytes read from the four files, per segment
  files_read,            \* number of read_bytes() calls made
  out_dir_created,       \* output_root.mkdir was called
  seg_i,                 \* the loop variable i
  selected,              \* vps, ad, ovd, gvd, avd and header_byte
  combined,              \* the bytes of the output files, in index order
  \* ---- tile assignment of one point (SpecCell) ----
  kpc,                   \* position inside _process_frame's assignment
  cell_meta,             \* argument boundaries_meta
  cell_point,            \* one row (x, y, z) of df
  cell_raw,              \* (ix, iy, iz) after floor and astype(int)
  cell_idx,              \* (ix, iy, iz) after np.clip
  cell_tile,             \* the row's entry of tile_ids
  \* ---- tile generator (SpecTile) ----
  tpc,                   \* position inside generate_tiles_from_frames
  texc,                  \* exception leaving generate_tiles_from_frames
  frame_paths,           \* argument: the frames, with the files' contents
  grid,                  \* self.n_x, self.n_y, self.n_z
  segment_size,          \* self.segment_size
  seg_start,             \* the loop variable i
  boundaries_data,       \* result of _compute_segment_boundaries
  boundaries_per_segment, \* local: seg_idx -> tile_bounds
  frame_state,           \* per frame: state of its _process_frame call
  consumed,              \* results of the segment taken from exe.map
  tile_files,            \* per frame: the sub-frames written, tile 0 first
  tlog,                  \* frames with an [ERROR] line in the log file
  reported,              \* per frame: the result seen by the loop at 232
  manifest,              \* content of tile_boundaries.json
  manifest_writes,       \* number of times the file was written
  \* ---- main's start (SpecConfig) ----
  gpc,                   \* position inside main()
  gexc,                  \* the message of the RuntimeError leaving main()
  args,                  \* the parsed command line
  out_dirs_created,      \* the output directories of 284-285 exist
  log_dirs_created,      \* the run's log directories exist
  run_log,               \* the lines of run.log
  threads_per_instance,  \* local of main()
  stage_started,         \* a stage of the pipeline has begun
  \* ---- the parameters and files of each job (SpecTask) ----
  epc,                   \* position inside encode_tiles_with_qp_pairs
  base_params,           \* argument base_params
  threads_arg,           \* argument threads_per_instance (0 for None)
  job_pairs,             \* normalized_pairs
  job_tiles,             \* the tile directories with their frame sequence
  encoding_logs_dir,     \* argument encoding_logs_dir is given
  runner_log_file,       \* self.log_file is set
  job_list,              \* local tasks
  worker_params,         \* per job: encoder_params of run()
  worker_output,         \* per job: compressed_stream_filename
  worker_log,            \* per job: the file the worker's output goes to
  \* ---- the progress section of encode_task (SpecProgress) ----
  lpc,                   \* per job: position inside encode_task 659-669
  progress_lock,         \* the job holding progress_lock, 0 when free
  lines,                 \* per job: the local lines (its k)
  shared_log,            \* the lines of log_file, in file order
  \* ---- cancellation of running jobs (SpecEscalate) ----
  run_pc,                \* per running job: position of run() in 413-436
  cancel_all_pc,         \* position of cancel_all: <<line, index>>
  worker,                \* per running job: its `docker run` process
  sent,                  \* per running job: the signals issued so far
  grace_elapsed,         \* per running job: a wait after terminate timed out
  \* ---- the control server (SpecServer) ----
  req_pc,                \* per /api/run request: position in run_pipeline
  response,              \* per request: the status code returned, 0 if none
  _current_proc,         \* the tracked process (its request), 0 for None
  pipeline,              \* per request: the pipeline process it launched
  mon_pc                 \* per request: position of its _monitor_proc thread

schedVars == <<mainpc, raised, max_parallel_encodes, stop_event, CANCEL_REQUESTED,
               CANCEL_EVENT, ACTIVE_PROCS, ACTIVE_CONTAINERS, capc,
               next_task_idx, in_flight, cancelled, completed_tasks, wpc, proc,
               outcome, exc, killed>>

buildVars == <<bpc, bexc, qp_pairs, tiles_root, normalized_pairs, tile_infos,
               tasks, dispatched>>

parseVars == <<ppc, pexc, data, size_len, offset, units>>

combineVars == <<cpc, cexc, track_len, track_data, files_read,
                 out_dir_created, seg_i, selected, combined>>

cellVars == <<kpc, cell_meta, cell_point, cell_raw, cell_idx, cell_tile>>

tileVars == <<tpc, texc, frame_paths, grid, segment_size, seg_start,
              boundaries_data, boundaries_per_segment, frame_state, consumed,
              tile_files, tlog, reported, manifest, manifest_writes>>

configVars == <<gpc, gexc, args, out_dirs_created, log_dirs_created, run_log,
                threads_per_instance, stage_started>>

taskVars == <<epc, base_params, threads_arg, job_pairs, job_tiles,
              encoding_logs_dir, runner_log_file, job_list, worker_params,
              worker_output, worker_log>>

progressVars == <<lpc, progress_lock, lines, shared_log>>

escalateVars == <<run_pc, cancel_all_pc, worker, sent, grace_elapsed>>

serverVars == <<req_pc, response, _current_proc, pipeline, mon_pc>>

\* the groups added after main's start
laterVars == <<taskVars, progressVars, escalateVars, serverVars>>

\* the groups before them, without the scheduler's
beforeLater == <<buildVars, parseVars, combineVars, cellVars, tileVars,
                 configVars>>

\* the scheduler's variables the progress section leaves alone
schedOfProgress == <<mainpc, raised, max_parallel_encodes, CANCEL_REQUESTED,
                     CANCEL_EVENT, ACTIVE_PROCS, ACTIVE_CONTAINERS, capc,
                     next_task_idx, in_flight, cancelled, wpc, proc, outcome,
                     exc, killed>>

\* the groups added after the parser's
restVars == <<combineVars, cellVars, tileVars, configVars, laterVars>>

\* the scheduler's variables main's start leaves alone
schedOfConfig == <<mainpc, raised, stop_event, CANCEL_REQUESTED,
                   CANCEL_EVENT, ACTIVE_PROCS, ACTIVE_CONTAINERS, capc,
                   next_task_idx, in_flight, cancelled, completed_tasks, wpc,
                   proc, outcome, exc, killed>>

\* the scheduler's variables the tile generator leaves alone
schedOfTile == <<mainpc, raised, max_parallel_encodes, CANCEL_REQUESTED,
                 CANCEL_EVENT, ACTIVE_PROCS, ACTIVE_CONTAINERS, capc,
                 next_task_idx, in_flight, cancelled, completed_tasks, wpc,
                 proc, outcome, exc, killed>>

otherThanSched == <<buildVars, parseVars, restVars>>

vars == <<schedVars, buildVars, parseVars, restVars>>

\* the scheduler's variables the builder's steps leave alone
schedOfBuild == <<mainpc, raised, max_parallel_encodes, stop_event,
                  CANCEL_REQUESTED, CANCEL_EVENT, ACTIVE_PROCS,
                  ACTIVE_CONTAINERS, capc, in_flight, cancelled,
                  completed_tasks, wpc, proc, outcome, exc, killed>>

\* groups used in UNCHANGED clauses
flags == <<stop_event, CANCEL_REQUESTED, CANCEL_EVENT>>
registry == <<ACTIVE_PROCS, ACTIVE_CONTAINERS>>
dispatchVars == <<next_task_idx, in_flight, cancelled>>

(* --------------------------- cancellation ------------------------------ *)
\* _cancel_requested(stop_event)
cancel_requested == CANCEL_EVENT \/ CANCEL_REQUESTED \/ stop_event

\* The signal handler runs in the main thread: while it runs, the main
\* thread's own code is suspended.
HandlerIdle == capc.handler = "none"
MainRuns == HandlerIdle /\ capc.main = "none"

\* max_parallel_encodes <= 1: the tasks run one after the other in the
\* calling (main) thread.
Sequential == max_parallel_encodes <= 1

\* Who executes job j's code: the main thread (sequential path), which the
\* handler suspends, or a thread of the executor, which it does not.
CanStep(j) == IF Sequential THEN MainRuns ELSE TRUE

Executing(j) == wpc[j] \notin {"idle", "queued", "done", "dropped"}

(* ------------------------------ Init ----------------------------------- *)
SchedInit ==
  /\ mainpc = "tiling"
  /\ raised = "none"
  /\ max_parallel_encodes \in 1..MaxParallel
  /\ stop_event = FALSE
  /\ CANCEL_REQUESTED = FALSE
  /\ CANCEL_EVENT = FALSE
  /\ ACTIVE_PROCS = {}
  /\ ACTIVE_CONTAINERS = {}
  /\ capc = [main |-> "none", handler |-> "none"]
  /\ next_task_idx = 0
  /\ in_flight = {}
  /\ cancelled = FALSE
  /\ completed_tasks = 0
  /\ wpc = [j \in Jobs |-> "idle"]
  /\ proc = [j \in Jobs |-> "none"]
  /\ outcome = [j \in Jobs |-> "none"]
  /\ exc = [j \in Jobs |-> "none"]
  /\ killed = [j \in Jobs |-> FALSE]

(* ------------------- cancel_all (tmc2_encoder.py 451-499) -------------- *)
\* cancel_all is entered by the signal handler (main.py 317), by the
\* dispatch loop (tmc2_encoder.py 702) and by main's finally (main.py 402).
\* who is "handler" or "main"; the main thread's call is suspended while
\* the handler runs.
CallerRuns(who) == IF who = "main" THEN HandlerIdle ELSE TRUE

\* 454-464: the flags are set (every caller enters with cancellation
\* already requested, so _cancel_requested does not change here), then
\* _kill_container runs on each name of a snapshot of ACTIVE_CONTAINERS.
cancel_all_kill_containers(who) ==
  /\ capc[who] = "454"
  /\ CallerRuns(who)
  /\ CANCEL_REQUESTED' = TRUE
  /\ CANCEL_EVENT' = TRUE
  /\ killed' = [j \in Jobs |-> killed[j] \/ j \in ACTIVE_CONTAINERS]
  /\ capc' = [capc EXCEPT ![who] = "465"]
  /\ UNCHANGED <<mainpc, raised, max_parallel_encodes, stop_event, ACTIVE_PROCS,
                 ACTIVE_CONTAINERS, next_task_idx, in_flight, cancelled,
                 completed_tasks, wpc, proc, outcome, exc>>
  /\ UNCHANGED otherThanSched

\* 465: ACTIVE_CONTAINERS.clear()
cancel_all_clear_containers(who) ==
  /\ capc[who] = "465"
  /\ CallerRuns(who)
  /\ ACTIVE_CONTAINERS' = {}
  /\ capc' = [capc EXCEPT ![who] = "468"]
  /\ UNCHANGED <<mainpc, raised, max_parallel_encodes, stop_event, CANCEL_REQUESTED,
                 CANCEL_EVENT, ACTIVE_PROCS, next_task_idx, in_flight,
                 cancelled, completed_tasks, wpc, proc, outcome, exc, killed>>
  /\ UNCHANGED otherThanSched

\* 468-498: a snapshot of ACTIVE_PROCS is terminated, waited for (5 s),
\* killed, waited for (3 s): the signals make the processes exit (ProcExit)
\* at some instant, and the waits are bounded, so this ends whether or not
\* they have exited.  Then ACTIVE_PROCS = [p for p in ACTIVE_PROCS if
\* p.poll() is None], and the call returns.
cancel_all_procs(who) ==
  /\ capc[who] = "468"
  /\ CallerRuns(who)
  /\ ACTIVE_PROCS' = {j \in ACTIVE_PROCS : proc[j] = "alive"}
  /\ capc' = [capc EXCEPT ![who] = "none"]
  /\ UNCHANGED <<mainpc, raised, max_parallel_encodes, stop_event, CANCEL_REQUESTED,
                 CANCEL_EVENT, ACTIVE_CONTAINERS, next_task_idx, in_flight,
                 cancelled, completed_tasks, wpc, proc, outcome, exc, killed>>
  /\ UNCHANGED otherThanSched

(* ------------------- handle_term (main.py 314-317) --------------------- *)
\* A SIGTERM or SIGINT reaches the pipeline process: the handler runs in the
\* main thread, sets stop_event and enters cancel_all().
handle_term ==
  /\ mainpc \notin {"finished", "exited"}
  /\ HandlerIdle
  /\ stop_event' = TRUE
  /\ capc' = [capc EXCEPT !.handler = "454"]
  /\ UNCHANGED <<mainpc, raised, max_parallel_encodes, CANCEL_REQUESTED, CANCEL_EVENT,
                 ACTIVE_PROCS, ACTIVE_CONTAINERS, next_task_idx, in_flight,
                 cancelled, completed_tasks, wpc, proc, outcome, exc,
                 killed>>
  /\ UNCHANGED otherThanSched

(* ------------------- main (main.py 334-412) ---------------------------- *)
\* 334-361: the tiling step ends (generate_tiles_from_frames only reads
\* stop_event, between segments) and main goes on to the encoding step.
TilingDone ==
  /\ mainpc = "tiling"
  /\ MainRuns
  /\ mainpc' = "construct"
  /\ UNCHANGED <<raised, max_parallel_encodes, stop_event, CANCEL_REQUESTED,
                 CANCEL_EVENT, ACTIVE_PROCS, ACTIVE_CONTAINERS, capc,
                 next_task_idx, in_flight, cancelled, completed_tasks, wpc, proc, outcome, exc, killed>>
  /\ UNCHANGED otherThanSched

\* Faulty variant of Construct (a deliberately wrong translation): the constructor also clears the stop_event it is
\* given.
Construct_clears_stop_event ==
  /\ mainpc = "construct"
  /\ MainRuns
  /\ CANCEL_REQUESTED' = FALSE
  /\ CANCEL_EVENT' = FALSE
  /\ stop_event' = FALSE
  /\ mainpc' = "ensure_repo"
  /\ UNCHANGED <<raised, max_parallel_encodes, ACTIVE_PROCS,
                 ACTIVE_CONTAINERS, capc, next_task_idx, in_flight,
                 cancelled, completed_tasks, wpc, proc, outcome, exc,
                 killed>>
  /\ UNCHANGED otherThanSched

\* TMC2EncoderRunner.__init__ (tmc2_encoder.py 76-80), called at main.py 365:
\* keeps stop_event and resets the class-level cancellation flags.
Construct ==
  /\ mainpc = "construct"
  /\ MainRuns
  /\ CANCEL_REQUESTED' = FALSE
  /\ CANCEL_EVENT' = FALSE
  /\ mainpc' = "ensure_repo"
  /\ UNCHANGED <<raised, max_parallel_encodes, stop_event, ACTIVE_PROCS,
                 ACTIVE_CONTAINERS, capc, next_task_idx, in_flight,
                 cancelled, completed_tasks, wpc, proc, outcome, exc,
                 killed>>
  /\ UNCHANGED otherThanSched

\* _ensure_repo (189-191), _ensure_repo_commit (211-213), _ensure_build
\* (317-319): each stops the pipeline with sys.exit(1) when cancellation is
\* requested; the constructor is outside main's try, so the process exits.
EnsureSteps == <<"ensure_repo", "ensure_commit", "ensure_build", "entry">>

Ensure(i) ==
  /\ mainpc = EnsureSteps[i]
  /\ MainRuns
  /\ IF cancel_requested
     THEN mainpc' = "exited" /\ raised' = "SystemExit"
     ELSE mainpc' = EnsureSteps[i + 1] /\ raised' = raised
  /\ UNCHANGED <<max_parallel_encodes, stop_event, CANCEL_REQUESTED, CANCEL_EVENT,
                 ACTIVE_PROCS, ACTIVE_CONTAINERS, capc, next_task_idx,
                 in_flight, cancelled, completed_tasks, wpc, proc,
                 outcome, exc, killed>>
  /\ UNCHANGED otherThanSched

\* encode_tiles_with_qp_pairs 586-632 on valid arguments: the check of 599
\* returns when cancellation is requested; otherwise the task list is built
\* and the sequential (671) or the parallel (679) path is taken.
Entry ==
  /\ mainpc = "entry"
  /\ MainRuns
  /\ mainpc' = IF cancel_requested THEN "ret"
               ELSE IF Sequential THEN "seq673" ELSE "launch"
  /\ UNCHANGED <<raised, max_parallel_encodes, stop_event, CANCEL_REQUESTED,
                 CANCEL_EVENT, ACTIVE_PROCS, ACTIVE_CONTAINERS, capc,
                 next_task_idx, in_flight, cancelled, completed_tasks, wpc, proc, outcome, exc, killed>>
  /\ UNCHANGED otherThanSched

\* The three tests of the cancellation signal that precede the start of a
\* worker: 673 (sequential path only), 636 (encode_task) and 355 (run).
\* Nothing is written between them and the signal is not cleared while a
\* batch runs, so they are taken in one step: the task goes on to Popen
\* ("popen"), returns at 636 ("done"), or is skipped by run() at 355 and
\* reaches the progress test of 659 ("p659").
SkipTargets == {"done", "p659"}

\* 672-677: for t in tasks: if cancel requested: break; encode_task(t)
SeqLoop ==
  /\ mainpc = "seq673"
  /\ MainRuns
  /\ IF next_task_idx >= NumJobs \/ cancel_requested
     THEN /\ mainpc' = "ret"
          /\ UNCHANGED <<next_task_idx, wpc>>
     ELSE /\ mainpc' = "seq_call"
          /\ wpc' = [wpc EXCEPT ![next_task_idx + 1] = "popen"]
          /\ next_task_idx' = next_task_idx + 1
  /\ UNCHANGED <<raised, max_parallel_encodes, flags, registry, capc,
                 in_flight, cancelled, completed_tasks, proc, outcome, exc,
                 killed>>
  /\ UNCHANGED otherThanSched

\* 676: encode_task(t) has ended in the main thread: the loop goes on, or
\* the exception that left run() propagates out of
\* encode_tiles_with_qp_pairs (the sequential path has no try).
SeqReturn ==
  /\ mainpc = "seq_call"
  /\ MainRuns
  /\ next_task_idx >= 1 /\ wpc[next_task_idx] = "done"
  /\ IF exc[next_task_idx] # "none"
     THEN mainpc' = "ret" /\ raised' = exc[next_task_idx]
     ELSE mainpc' = "seq673" /\ raised' = raised
  /\ UNCHANGED <<max_parallel_encodes, flags, registry, capc, dispatchVars,
                 completed_tasks, wpc, proc, outcome, exc, killed>>
  /\ UNCHANGED otherThanSched

\* 688-692: the condition of launch_available's while
LaunchGuard ==
  /\ ~cancel_requested
  /\ Cardinality(in_flight) < max_parallel_encodes
  /\ next_task_idx < NumJobs

\* Faulty variant of LaunchAvailable (a deliberately wrong translation):
\* the tasks are submitted from the end of the list.
LaunchAvailable_last_first ==
  /\ mainpc = "launch"
  /\ MainRuns
  /\ IF LaunchGuard
     THEN /\ wpc' = [wpc EXCEPT ![NumJobs - next_task_idx] = "queued"]
          /\ in_flight' = in_flight \cup {NumJobs - next_task_idx}
          /\ next_task_idx' = next_task_idx + 1
          /\ mainpc' = "launch"
     ELSE /\ mainpc' = "loop698"
          /\ UNCHANGED <<wpc, in_flight, next_task_idx>>
  /\ UNCHANGED <<raised, max_parallel_encodes, flags, registry, capc,
                 cancelled, completed_tasks, proc, outcome, exc, killed>>
  /\ UNCHANGED otherThanSched

\* 686-695: one turn of launch_available's loop: submit the next task, or
\* leave the loop for the dispatch loop's test (698).
LaunchAvailable ==
  /\ mainpc = "launch"
  /\ MainRuns
  /\ IF LaunchGuard
     THEN /\ wpc' = [wpc EXCEPT ![next_task_idx + 1] = "queued"]
          /\ in_flight' = in_flight \cup {next_task_idx + 1}
          /\ next_task_idx' = next_task_idx + 1
          /\ mainpc' = "launch"
     ELSE /\ mainpc' = "loop698"
          /\ UNCHANGED <<wpc, in_flight, next_task_idx>>
  /\ UNCHANGED <<raised, max_parallel_encodes, flags, registry, capc,
                 cancelled, completed_tasks, proc, outcome, exc, killed>>
  /\ UNCHANGED otherThanSched

\* 698-712: one turn of the dispatch loop.  With no future in flight the
\* loop ends; on cancellation cancel_all() is entered (702); otherwise
\* concurrent.futures.wait returns the finished futures (none on a timeout)
\* and they leave in_flight.
DispatchLoop ==
  /\ mainpc = "loop698"
  /\ MainRuns
  /\ IF in_flight = {}
     THEN /\ mainpc' = "shutdown"
          /\ UNCHANGED <<cancelled, capc, in_flight>>
     ELSE IF cancel_requested
     THEN /\ cancelled' = TRUE
          /\ capc' = [capc EXCEPT !.main = "454"]
          /\ mainpc' = "call702"
          /\ UNCHANGED in_flight
     ELSE /\ in_flight' = {j \in in_flight : wpc[j] # "done"}
          /\ mainpc' = "launch"
          /\ UNCHANGED <<cancelled, capc>>
  /\ UNCHANGED <<raised, max_parallel_encodes, flags, registry,
                 next_task_idx, completed_tasks, wpc, proc, outcome, exc,
                 killed>>
  /\ UNCHANGED otherThanSched

\* Future.cancel() / shutdown(cancel_futures=True): a work item that no
\* thread has taken yet is dropped and never runs.
DropQueued(w) == [j \in Jobs |-> IF w[j] = "queued" THEN "dropped" ELSE w[j]]
DropOutcome(w, o) == [j \in Jobs |-> IF w[j] = "queued" THEN "cancelled" ELSE o[j]]

\* 703-705: cancel_all() has returned; fut.cancel() on every future in
\* flight; break.
AfterCancelAll702 ==
  /\ mainpc = "call702"
  /\ MainRuns
  /\ wpc' = DropQueued(wpc)
  /\ outcome' = DropOutcome(wpc, outcome)
  /\ mainpc' = "shutdown"
  /\ UNCHANGED <<raised, max_parallel_encodes, flags, registry, capc,
                 dispatchVars, completed_tasks, proc, exc, killed>>
  /\ UNCHANGED otherThanSched

\* 713-719, first half: executor.shutdown(wait=True, cancel_futures=...)
\* drops the queued work items when cancellation is known ...
ShutdownBegin ==
  /\ mainpc = "shutdown"
  /\ MainRuns
  /\ IF cancelled \/ cancel_requested
     THEN wpc' = DropQueued(wpc) /\ outcome' = DropOutcome(wpc, outcome)
     ELSE UNCHANGED <<wpc, outcome>>
  /\ mainpc' = "joining"
  /\ UNCHANGED <<raised, max_parallel_encodes, flags, registry, capc,
                 dispatchVars, completed_tasks, proc, exc, killed>>
  /\ UNCHANGED otherThanSched

\* ... second half: and joins the executor's threads, which end when no
\* work item is left.
ShutdownJoin ==
  /\ mainpc = "joining"
  /\ MainRuns
  /\ \A j \in Jobs : wpc[j] \in {"idle", "done", "dropped"}
  /\ mainpc' = "ret"
  /\ UNCHANGED <<raised, max_parallel_encodes, flags, registry, capc,
                 dispatchVars, completed_tasks, wpc, proc, outcome, exc,
                 killed>>
  /\ UNCHANGED otherThanSched

\* main.py 400-402: finally: if stop_event.is_set(): cancel_all()
MainFinally ==
  /\ mainpc = "ret"
  /\ MainRuns
  /\ IF stop_event
     THEN capc' = [capc EXCEPT !.main = "454"]
     ELSE UNCHANGED capc
  /\ mainpc' = "call402"
  /\ UNCHANGED <<raised, max_parallel_encodes, flags, registry,
                 dispatchVars, completed_tasks, wpc, proc, outcome, exc,
                 killed>>
  /\ UNCHANGED otherThanSched

\* main.py 403-412: the encoding step is over: main goes on ("finished"),
\* or the exception ends the pipeline process ("exited").
MainEnd ==
  /\ mainpc = "call402"
  /\ MainRuns
  /\ mainpc' = IF raised # "none" THEN "exited" ELSE "finished"
  /\ UNCHANGED <<raised, max_parallel_encodes, flags, registry, capc,
                 dispatchVars, completed_tasks, wpc, proc, outcome, exc,
                 killed>>
  /\ UNCHANGED otherThanSched

(* ------------- executor threads (tmc2_encoder.py 682, 693) ------------- *)
\* ThreadPoolExecutor(max_workers=max_parallel_encodes): a queued work item
\* is taken, in submission order, when fewer than max_workers threads are
\* busy; encode_task then tests the signal at 636 and run() at 355.
WorkerStart(j) ==
  /\ wpc[j] = "queued"
  /\ \A k \in Jobs : wpc[k] = "queued" => j <= k
  /\ Cardinality({k \in Jobs : Executing(k)}) < max_parallel_encodes
  /\ IF cancel_requested
     THEN /\ \E t \in SkipTargets : wpc' = [wpc EXCEPT ![j] = t]
          /\ outcome' = [outcome EXCEPT ![j] = "cancelled"]
     ELSE /\ wpc' = [wpc EXCEPT ![j] = "popen"]
          /\ UNCHANGED outcome
  /\ UNCHANGED <<mainpc, raised, max_parallel_encodes, flags, registry, capc,
                 dispatchVars, completed_tasks, proc, exc, killed>>
  /\ UNCHANGED otherThanSched

(* ------------- encode_task (tmc2_encoder.py 634-669) ------------------- *)
\* Faulty variant of Progress (a deliberately wrong translation): the test
\* of stop_event at 659 is missing.
Progress_ignores_stop(j) ==
  /\ wpc[j] = "p659"
  /\ CanStep(j)
  /\ completed_tasks' = completed_tasks + 1
  /\ wpc' = [wpc EXCEPT ![j] = "done"]
  /\ UNCHANGED <<mainpc, raised, max_parallel_encodes, flags, registry, capc,
                 dispatchVars, proc, outcome, exc, killed>>
  /\ UNCHANGED otherThanSched

\* 659-669 after run() skipped the task at 355: the progress counter moves
\* unless stop_event is set (main.py passes a log_file).
Progress(j) ==
  /\ wpc[j] = "p659"
  /\ CanStep(j)
  /\ completed_tasks' = IF stop_event THEN completed_tasks ELSE completed_tasks + 1
  /\ wpc' = [wpc EXCEPT ![j] = "done"]
  /\ UNCHANGED <<mainpc, raised, max_parallel_encodes, flags, registry, capc,
                 dispatchVars, proc, outcome, exc, killed>>
  /\ UNCHANGED otherThanSched

(* ------------------- run (tmc2_encoder.py 341-449) --------------------- *)
\* 359-412: the command is built, subprocess.Popen starts `docker run`, and
\* the process and the container name enter the registries.
RunPopen(j) ==
  /\ wpc[j] = "popen"
  /\ CanStep(j)
  /\ proc' = [proc EXCEPT ![j] = "alive"]
  /\ ACTIVE_PROCS' = ACTIVE_PROCS \cup {j}
  /\ ACTIVE_CONTAINERS' = ACTIVE_CONTAINERS \cup {j}
  /\ wpc' = [wpc EXCEPT ![j] = "wait"]
  /\ UNCHANGED <<mainpc, raised, max_parallel_encodes, flags, capc,
                 dispatchVars, completed_tasks, outcome, exc, killed>>
  /\ UNCHANGED otherThanSched

\* Faulty variant of RunWait (a deliberately wrong translation): the loop is left on the first timeout of
\* proc.wait(timeout=0.5), whether or not cancellation is requested.
RunWait_leaves_on_timeout(j) ==
  /\ wpc[j] = "wait"
  /\ CanStep(j)
  /\ wpc' = [wpc EXCEPT ![j] = "j437"]
  /\ UNCHANGED <<mainpc, raised, max_parallel_encodes, flags, registry, capc,
                 dispatchVars, completed_tasks, proc, outcome, exc, killed>>
  /\ UNCHANGED otherThanSched

\* 413-423: proc.wait(timeout=0.5) returns when the process has exited; on
\* a timeout with cancellation requested the container is killed and the
\* process terminated; on a timeout without, the loop waits again.
RunWait(j) ==
  /\ wpc[j] = "wait"
  /\ CanStep(j)
  /\ \/ /\ proc[j] = "exited"
        /\ wpc' = [wpc EXCEPT ![j] = "j437"]
        /\ UNCHANGED killed
     \/ /\ proc[j] = "alive"
        /\ cancel_requested
        /\ killed' = [killed EXCEPT ![j] = TRUE]
        /\ wpc' = [wpc EXCEPT ![j] = "termwait"]
  /\ UNCHANGED <<mainpc, raised, max_parallel_encodes, flags, registry, capc,
                 dispatchVars, completed_tasks, proc, outcome, exc>>
  /\ UNCHANGED otherThanSched

\* 424-436: proc.wait(timeout=5) after terminate(); on a timeout proc.kill()
\* and proc.wait(timeout=5); on a second timeout the process is logged as
\* still alive.  The loop is left in every case (436), with the process
\* exited or not.
RunEscalate(j) ==
  /\ wpc[j] = "termwait"
  /\ CanStep(j)
  /\ wpc' = [wpc EXCEPT ![j] = "j437"]
  /\ UNCHANGED <<mainpc, raised, max_parallel_encodes, flags, registry, capc,
                 dispatchVars, completed_tasks, proc, outcome, exc, killed>>
  /\ UNCHANGED otherThanSched

\* proc.returncode as read at 437: the exit status of the process, 0 or
\* not (1 here), or None (-1 here) when the process was not seen to exit.
\* The status is read nowhere else, so it is drawn when it is read.
returncodes(j) == IF proc[j] = "exited" THEN {0, 1} ELSE {-1}

\* Faulty variant of IsFailure (a deliberately wrong translation): the test forgets the cancellation signal.
IsFailure_ignores_cancel(rc) == rc # 0

\* 437: the test that makes a job a failure
IsFailure(rc) == rc # 0 /\ ~cancel_requested

\* 437-440: a failure logs the error and raises SystemExit (sys.exit); the
\* finally clause runs in every case.
RunJudge(j) ==
  /\ wpc[j] = "j437"
  /\ CanStep(j)
  /\ \E rc \in returncodes(j) :
       IF IsFailure(rc)
       THEN /\ outcome' = [outcome EXCEPT ![j] = "failed"]
            /\ exc' = [exc EXCEPT ![j] = "SystemExit"]
       ELSE /\ outcome' = [outcome EXCEPT ![j] =
                             IF rc = 0 THEN "succeeded" ELSE "cancelled"]
            /\ UNCHANGED exc
  /\ wpc' = [wpc EXCEPT ![j] = "f442"]
  /\ UNCHANGED <<mainpc, raised, max_parallel_encodes, flags, registry, capc,
                 dispatchVars, completed_tasks, proc, killed>>
  /\ UNCHANGED otherThanSched

\* 442: if proc in ACTIVE_PROCS
RunFinallyProcTest(j) ==
  /\ wpc[j] = "f442"
  /\ CanStep(j)
  /\ wpc' = [wpc EXCEPT ![j] = IF j \in ACTIVE_PROCS THEN "f443" ELSE "f446"]
  /\ UNCHANGED <<mainpc, raised, max_parallel_encodes, flags, registry, capc,
                 dispatchVars, completed_tasks, proc, outcome, exc, killed>>
  /\ UNCHANGED otherThanSched

\* 443: ACTIVE_PROCS.remove(proc): list.remove raises ValueError when the
\* element is not (any more) in the list, and the rest of the finally
\* clause is skipped.
RunFinallyProcRemove(j) ==
  /\ wpc[j] = "f443"
  /\ CanStep(j)
  /\ IF j \in ACTIVE_PROCS
     THEN /\ ACTIVE_PROCS' = ACTIVE_PROCS \ {j}
          /\ wpc' = [wpc EXCEPT ![j] = "f446"]
          /\ UNCHANGED exc
     ELSE /\ exc' = [exc EXCEPT ![j] = "ValueError"]
          /\ wpc' = [wpc EXCEPT ![j] = "done"]
          /\ UNCHANGED ACTIVE_PROCS
  /\ UNCHANGED <<mainpc, raised, max_parallel_encodes, flags, ACTIVE_CONTAINERS, capc, dispatchVars, completed_tasks, proc, outcome, killed>>
  /\ UNCHANGED otherThanSched

\* 444-446: the log file is closed; if container_name in ACTIVE_CONTAINERS
RunFinallyContTest(j) ==
  /\ wpc[j] = "f446"
  /\ CanStep(j)
  /\ wpc' = [wpc EXCEPT ![j] = IF j \in ACTIVE_CONTAINERS THEN "f447" ELSE "f449"]
  /\ UNCHANGED <<mainpc, raised, max_parallel_encodes, flags, registry, capc,
                 dispatchVars, completed_tasks, proc, outcome, exc, killed>>
  /\ UNCHANGED otherThanSched

\* 447: ACTIVE_CONTAINERS.remove(container_name), ValueError as at 443
RunFinallyContRemove(j) ==
  /\ wpc[j] = "f447"
  /\ CanStep(j)
  /\ IF j \in ACTIVE_CONTAINERS
     THEN /\ ACTIVE_CONTAINERS' = ACTIVE_CONTAINERS \ {j}
          /\ wpc' = [wpc EXCEPT ![j] = "f449"]
          /\ UNCHANGED exc
     ELSE /\ exc' = [exc EXCEPT ![j] = "ValueError"]
          /\ wpc' = [wpc EXCEPT ![j] = "done"]
          /\ UNCHANGED ACTIVE_CONTAINERS
  /\ UNCHANGED <<mainpc, raised, max_parallel_encodes, flags, ACTIVE_PROCS, capc, dispatchVars, completed_tasks, proc, outcome, killed>>
  /\ UNCHANGED otherThanSched

\* 449: self._kill_container(container_name); then the pending exception
\* goes on to encode_task's caller, or run() returns and encode_task moves
\* the progress counter (659-669) unless stop_event is set.
RunFinallyKill(j) ==
  /\ wpc[j] = "f449"
  /\ CanStep(j)
  /\ killed' = [killed EXCEPT ![j] = TRUE]
  /\ completed_tasks' = IF exc[j] = "none" /\ ~stop_event
                        THEN completed_tasks + 1 ELSE completed_tasks
  /\ wpc' = [wpc EXCEPT ![j] = "done"]
  /\ UNCHANGED <<mainpc, raised, max_parallel_encodes, flags, registry, capc,
                 dispatchVars, proc, outcome, exc>>
  /\ UNCHANGED otherThanSched

(* ------------------------- worker processes ---------------------------- *)
\* The `docker run` process of job j exits, by itself or because it or its
\* container was signalled, with status 0 or not.
ProcExit(j) ==
  /\ proc[j] = "alive"
  /\ proc' = [proc EXCEPT ![j] = "exited"]
  /\ UNCHANGED <<mainpc, raised, max_parallel_encodes, flags, registry, capc,
                 dispatchVars, completed_tasks, wpc, outcome, exc, killed>>
  /\ UNCHANGED otherThanSched

(* --------------------------- specification ----------------------------- *)
(* ============ job graph builder (tmc2_encoder.py 502-625) ============== *)
\* File stems and directory names are strings, modelled as sequences of
\* character codes that keep the order of the characters: the digits
\* '0'..'9' are 0..9, the letters come after them.
IsDigit(c) == c \in 0..9

\* The .ply files a tile directory may hold, by their stems, with 10 for
\* the letter "a" and 11 for "b": no file; "a" alone; "a02" and "a1"; "a"
\* and "a1"; "a1" and "b"; "b2" and "b10".
FileSets == {{},
             {<<10>>},
             {<<10, 0, 2>>, <<10, 1>>},
             {<<10>>, <<10, 1>>},
             {<<10, 1>>, <<11>>},
             {<<11, 2>>, <<11, 1, 0>>}}

\* names of the tile directories, "1", "10", "2" after a common prefix
TileNames == {<<1>>, <<1, 0>>, <<2>>}

QPKeys == {"occupancyMapQP", "geometryQP", "attributeQP"}
QPValues == {<<16, 24, 32>>, <<20, 28, 36>>}

\* entries of qp_pairs: a dict (its keys, and its values in the order occ,
\* geo, attr), a list or tuple (its items), or any other object
QPEntries ==
  [kind : {"dict"}, keys : {QPKeys}, items : QPValues]
    \cup [kind : {"dict"},
          keys : {QPKeys \ {k} : k \in QPKeys},
          items : {<<16, 24, 32>>}]
    \cup [kind : {"list"}, keys : {{}},
          items : {<<16, 24, 32>>, <<16, 24>>, <<16, 24, 32, 40>>}]
    \cup [kind : {"other"}, keys : {{}}, items : {<<>>}]

\* str.__lt__ / Path.__lt__
RECURSIVE LexLess(_, _)
LexLess(s, t) ==
  IF s = <<>> THEN t # <<>>
  ELSE IF t = <<>> THEN FALSE
  ELSE IF Head(s) # Head(t) THEN Head(s) < Head(t)
  ELSE LexLess(Tail(s), Tail(t))

\* sorted() of a collection of distinct paths
RECURSIVE sorted(_)
sorted(S) ==
  IF S = {} THEN <<>>
  ELSE LET m == CHOOSE x \in S : \A y \in S \ {x} : LexLess(x, y)
       IN <<m>> \o sorted(S \ {m})

\* group 2 of re.search(r"(.*?)(\d+)$", stem): the trailing run of digits
RECURSIVE digits_of(_)
digits_of(stem) ==
  IF stem = <<>> \/ ~IsDigit(stem[Len(stem)]) THEN <<>>
  ELSE Append(digits_of(SubSeq(stem, 1, Len(stem) - 1)), stem[Len(stem)])

\* group 1 of the same match
prefix_of(stem) == SubSeq(stem, 1, Len(stem) - Len(digits_of(stem)))

\* int() of a string of digits
RECURSIVE int(_)
int(ds) ==
  IF ds = <<>> THEN 0
  ELSE int(SubSeq(ds, 1, Len(ds) - 1)) * 10 + ds[Len(ds)]

SetMax(S) == CHOOSE x \in S : \A y \in S : y <= x
SetMin(S) == CHOOSE x \in S : \A y \in S : x <= y

NoFrames == [err |-> "ValueError", prefix |-> <<>>, width |-> 0,
             startFrameNumber |-> 0, frameCount |-> 0]

\* _derive_frame_sequence (502-530) on the .ply stems of a tile directory
_derive_frame_sequence(files) ==
  LET frame_files == sorted(files)
  IN IF frame_files = <<>> THEN NoFrames
     ELSE IF digits_of(frame_files[1]) = <<>> THEN NoFrames
     ELSE LET numbered == {fp \in files : digits_of(fp) # <<>>}
          IN [err |-> "none",
              prefix |-> prefix_of(frame_files[1]),
              width |-> SetMax({Len(digits_of(fp)) : fp \in numbered}),
              startFrameNumber |-> SetMin({int(digits_of(fp)) : fp \in numbered}),
              frameCount |-> Cardinality(numbered)]

\* 538-556: the test on one entry of qp_pairs
ValidPair(pair) ==
  IF pair.kind = "dict" THEN QPKeys \subseteq pair.keys
  ELSE IF pair.kind = "list" THEN Len(pair.items) = 3
  ELSE FALSE

\* Faulty variant of _normalize_qp_pairs (a deliberately wrong translation): an empty list is let through.
_normalize_qp_pairs_accepts_empty(pairs) ==
  IF \E idx \in 1..Len(pairs) : ~ValidPair(pairs[idx])
  THEN [err |-> "ValueError", value |-> <<>>]
  ELSE [err |-> "none",
        value |-> [idx \in 1..Len(pairs) |-> pairs[idx].items]]

\* _normalize_qp_pairs (532-558)
_normalize_qp_pairs(pairs) ==
  IF pairs = <<>> THEN [err |-> "ValueError", value |-> <<>>]
  ELSE IF \E idx \in 1..Len(pairs) : ~ValidPair(pairs[idx])
  THEN [err |-> "ValueError", value |-> <<>>]
  ELSE [err |-> "none",
        value |-> [idx \in 1..Len(pairs) |-> pairs[idx].items]]

\* 624-625: the inner loop, one task per tile for one QP set
RECURSIVE tasks_of_pair(_, _, _)
tasks_of_pair(qp_idx, qp, infos) ==
  IF infos = <<>> THEN <<>>
  ELSE <<[qp_idx |-> qp_idx, dir |-> Head(infos).dir,
          params |-> Head(infos).params, qp |-> qp]>>
       \o tasks_of_pair(qp_idx, qp, Tail(infos))

\* Faulty variant of build_tasks (a deliberately wrong translation): the loops are exchanged, tiles outermost.
RECURSIVE build_tasks_tile_major(_, _, _)
build_tasks_tile_major(qp_idx, pairs, infos) ==
  IF infos = <<>> THEN <<>>
  ELSE [k \in 1..Len(pairs) |->
          [qp_idx |-> qp_idx + k - 1, dir |-> Head(infos).dir,
           params |-> Head(infos).params, qp |-> pairs[k]]]
       \o build_tasks_tile_major(qp_idx, pairs, Tail(infos))

\* 622-625: the outer loop over enumerate(normalized_pairs)
RECURSIVE build_tasks(_, _, _)
build_tasks(qp_idx, pairs, infos) ==
  IF pairs = <<>> THEN <<>>
  ELSE tasks_of_pair(qp_idx, Head(pairs), infos)
       \o build_tasks(qp_idx + 1, Tail(pairs), infos)

\* the directories a tiles_root may be: missing, or holding at most MaxTiles
\* tile directories
DirSets == {D \in SUBSET TileNames : Cardinality(D) <= MaxTiles}
TilesRoots ==
  {[exists |-> FALSE, dirs |-> <<>>]}
    \cup UNION {[exists : {TRUE}, dirs : [D -> FileSets]] : D \in DirSets}

QPLists == UNION {[1..n -> QPEntries] : n \in 0..MaxQP}

BuildIdle ==
  /\ bpc = "idle"
  /\ bexc = "none"
  /\ qp_pairs = <<>>
  /\ tiles_root = [exists |-> FALSE, dirs |-> <<>>]
  /\ normalized_pairs = <<>>
  /\ tile_infos = <<>>
  /\ tasks = <<>>
  /\ dispatched = <<>>

\* the state at the call of encode_tiles_with_qp_pairs (main.py 388): the
\* runner is constructed, stop_event may already be set
BuildInit ==
  /\ bpc = "587"
  /\ bexc = "none"
  /\ qp_pairs \in QPLists
  /\ tiles_root \in TilesRoots
  /\ normalized_pairs = <<>>
  /\ tile_infos = <<>>
  /\ tasks = <<>>
  /\ dispatched = <<>>
  /\ mainpc = "entry"
  /\ raised = "none"
  /\ max_parallel_encodes = 1
  /\ stop_event \in BOOLEAN
  /\ CANCEL_REQUESTED = FALSE
  /\ CANCEL_EVENT = FALSE
  /\ ACTIVE_PROCS = {}
  /\ ACTIVE_CONTAINERS = {}
  /\ capc = [main |-> "none", handler |-> "none"]
  /\ next_task_idx = 0
  /\ in_flight = {}
  /\ cancelled = FALSE
  /\ completed_tasks = 0
  /\ wpc = [j \in Jobs |-> "idle"]
  /\ proc = [j \in Jobs |-> "none"]
  /\ outcome = [j \in Jobs |-> "none"]
  /\ exc = [j \in Jobs |-> "none"]
  /\ killed = [j \in Jobs |-> FALSE]

\* 587: normalized_pairs = self._normalize_qp_pairs(qp_pairs)
BuildNormalize ==
  /\ bpc = "587"
  /\ LET r == _normalize_qp_pairs(qp_pairs)
     IN IF r.err # "none"
        THEN /\ bexc' = r.err
             /\ bpc' = "done"
             /\ UNCHANGED normalized_pairs
        ELSE /\ normalized_pairs' = r.value
             /\ bpc' = "590"
             /\ UNCHANGED bexc
  /\ UNCHANGED <<qp_pairs, tiles_root, tile_infos, tasks, dispatched>>
  /\ UNCHANGED <<schedOfBuild, next_task_idx, parseVars, restVars>>

\* 589-591: tiles_root must exist
BuildCheckRoot ==
  /\ bpc = "590"
  /\ IF ~tiles_root.exists
     THEN bexc' = "FileNotFoundError" /\ bpc' = "done"
     ELSE bpc' = "599" /\ UNCHANGED bexc
  /\ UNCHANGED <<qp_pairs, tiles_root, normalized_pairs, tile_infos, tasks,
                 dispatched>>
  /\ UNCHANGED <<schedOfBuild, next_task_idx, parseVars, restVars>>

\* 599-601: cancelled before start: plain return
BuildPreStart ==
  /\ bpc = "599"
  /\ bpc' = IF cancel_requested THEN "done" ELSE "603"
  /\ UNCHANGED <<bexc, qp_pairs, tiles_root, normalized_pairs, tile_infos,
                 tasks, dispatched>>
  /\ UNCHANGED <<schedOfBuild, next_task_idx, parseVars, restVars>>

\* 603-620: the sorted tile directories and the frame sequence of each
BuildScanTiles ==
  /\ bpc = "603"
  /\ LET tile_dirs == sorted(DOMAIN tiles_root.dirs)
         info(d) == [dir |-> d,
                     params |-> _derive_frame_sequence(tiles_root.dirs[d])]
     IN IF tile_dirs = <<>>
           \/ \E i \in 1..Len(tile_dirs) : info(tile_dirs[i]).params.err # "none"
        THEN /\ bexc' = "ValueError"
             /\ bpc' = "done"
             /\ UNCHANGED tile_infos
        ELSE /\ tile_infos' = [i \in 1..Len(tile_dirs) |-> info(tile_dirs[i])]
             /\ bpc' = "622"
             /\ UNCHANGED bexc
  /\ UNCHANGED <<qp_pairs, tiles_root, normalized_pairs, tasks, dispatched>>
  /\ UNCHANGED <<schedOfBuild, next_task_idx, parseVars, restVars>>

\* 622-625: the job list
BuildTasks ==
  /\ bpc = "622"
  /\ tasks' = build_tasks(0, normalized_pairs, tile_infos)
  /\ bpc' = "dispatch"
  /\ UNCHANGED <<bexc, qp_pairs, tiles_root, normalized_pairs, tile_infos,
                 dispatched>>
  /\ UNCHANGED <<schedOfBuild, next_task_idx, parseVars, restVars>>

\* 672-677 and 686-695: the next task, in list order, is handed to
\* encode_task unless cancellation is requested
BuildDispatch ==
  /\ bpc = "dispatch"
  /\ IF next_task_idx < Len(tasks) /\ ~cancel_requested
     THEN /\ dispatched' = Append(dispatched, tasks[next_task_idx + 1])
          /\ next_task_idx' = next_task_idx + 1
          /\ UNCHANGED bpc
     ELSE /\ bpc' = "done"
          /\ UNCHANGED <<dispatched, next_task_idx>>
  /\ UNCHANGED <<bexc, qp_pairs, tiles_root, normalized_pairs, tile_infos,
                 tasks>>
  /\ UNCHANGED <<schedOfBuild, parseVars, restVars>>

(* ============ parse_v3c_units (multiplexer.py 6-25) ==================== *)
\* the byte values a stream is made of
Bytes == {0, 1, 2, 8, 32}

Streams == UNION {[1..n -> Bytes] : n \in 0..MaxLen}

\* int.from_bytes(bs, "big")
RECURSIVE from_bytes(_)
from_bytes(bs) ==
  IF bs = <<>> THEN 0
  ELSE from_bytes(SubSeq(bs, 1, Len(bs) - 1)) * 256 + bs[Len(bs)]

\* Faulty variant of unit_type_of (a deliberately wrong translation): the
\* shift is missing, the low five bits are taken.
unit_type_of_without_shift(byte) == byte % 32

\* (payload[0] >> 3) & 0x1F
unit_type_of(byte) == (byte \div 8) % 32

ParseIdle ==
  /\ ppc = "idle"
  /\ pexc = "none"
  /\ data = <<>>
  /\ size_len = 0
  /\ offset = 0
  /\ units = <<>>

ParseInit ==
  /\ ppc = "8"
  /\ pexc = "none"
  /\ data \in Streams
  /\ size_len = 0
  /\ offset = 0
  /\ units = <<>>

\* Faulty variant of ParseHeader (a deliberately wrong translation): the
\* test for an empty stream is missing and data[0] raises IndexError.
ParseHeader_without_empty_test ==
  /\ ppc = "8"
  /\ IF data = <<>>
     THEN ppc' = "done" /\ pexc' = "IndexError" /\ UNCHANGED <<size_len, offset>>
     ELSE /\ size_len' = (data[1] \div 32) + 1
          /\ offset' = 1
          /\ ppc' = "15"
          /\ UNCHANGED pexc
  /\ UNCHANGED <<data, units>>
  /\ UNCHANGED <<schedVars, buildVars, restVars>>

\* 8-13: an empty stream ends the generator; otherwise the header byte
\* gives the width of the size fields
ParseHeader ==
  /\ ppc = "8"
  /\ IF data = <<>>
     THEN ppc' = "done" /\ UNCHANGED <<size_len, offset>>
     ELSE /\ size_len' = (data[1] \div 32) + 1
          /\ offset' = 1
          /\ ppc' = "15"
  /\ UNCHANGED <<pexc, data, units>>
  /\ UNCHANGED <<schedVars, buildVars, restVars>>

\* Faulty variant of ParseUnit (a deliberately wrong translation): the test
\* "end > data_len" is missing, the slice is cut at the end of the stream
\* and yielded.
ParseUnit_without_truncation_test ==
  /\ ppc = "15"
  /\ offset + size_len <= Len(data)
  /\ LET size == from_bytes(SubSeq(data, offset + 1, offset + size_len))
         start == offset
         end == offset + size_len + size
         cut == IF end > Len(data) THEN Len(data) ELSE end
     IN IF cut = offset + size_len
        THEN /\ pexc' = "IndexError"
             /\ ppc' = "done"
             /\ offset' = offset + size_len
             /\ UNCHANGED units
        ELSE /\ units' = Append(units,
                           <<unit_type_of(data[offset + size_len + 1]),
                             SubSeq(data, start + 1, cut)>>)
             /\ offset' = end
             /\ UNCHANGED <<pexc, ppc>>
  /\ UNCHANGED <<data, size_len>>
  /\ UNCHANGED <<schedVars, buildVars, restVars>>

\* 15-25: one turn of the loop, up to the yield (offset counts the bytes
\* consumed, so data[offset:end] is SubSeq(data, offset + 1, end))
ParseUnit ==
  /\ ppc = "15"
  /\ offset + size_len <= Len(data)
  /\ LET size == from_bytes(SubSeq(data, offset + 1, offset + size_len))
         start == offset
         end == offset + size_len + size
     IN IF end > Len(data)
        THEN /\ pexc' = "ValueError"
             /\ ppc' = "done"
             /\ offset' = offset + size_len
             /\ UNCHANGED units
        ELSE IF size = 0
        THEN /\ pexc' = "IndexError"
             /\ ppc' = "done"
             /\ offset' = offset + size_len
             /\ UNCHANGED units
        ELSE /\ units' = Append(units,
                           <<unit_type_of(data[offset + size_len + 1]),
                             SubSeq(data, start + 1, end)>>)
             /\ offset' = end
             /\ UNCHANGED <<pexc, ppc>>
  /\ UNCHANGED <<data, size_len>>
  /\ UNCHANGED <<schedVars, buildVars, restVars>>

\* 15: the loop condition fails, the generator is exhausted
ParseEnd ==
  /\ ppc = "15"
  /\ ~(offset + size_len <= Len(data))
  /\ ppc' = "done"
  /\ UNCHANGED <<pexc, data, size_len, offset, units>>
  /\ UNCHANGED <<schedVars, buildVars, restVars>>

(* ============ combine_per_segment (multiplexer.py 28-77) =============== *)
Tracks == {"atlas", "occp", "geom", "attr"}

\* The contents a track file may have: two units of types 0 and 1 with
\* one-byte sizes; two units of types 2 and 3 with two-byte sizes; a single
\* unit; a unit whose declared size passes the end; the empty file; two
\* units of types 2 and 4 with one-byte sizes.
TrackStreams == {<<0, 1, 0, 1, 8>>,
                 <<0, 1, 16, 1, 32>>,
                 <<32, 0, 1, 16, 0, 2, 24, 2>>,
                 <<0, 1, 32>>,
                 <<0, 8, 1>>,
                 <<>>}

\* 15-25 run to the end from offset off, as list() consumes the generator
RECURSIVE parse_from(_, _, _)
parse_from(bs, L, off) ==
  IF ~(off + L <= Len(bs)) THEN [err |-> "none", units |-> <<>>]
  ELSE LET size == from_bytes(SubSeq(bs, off + 1, off + L))
           end == off + L + size
       IN IF end > Len(bs) THEN [err |-> "ValueError", units |-> <<>>]
          ELSE IF size = 0 THEN [err |-> "IndexError", units |-> <<>>]
          ELSE LET rest == parse_from(bs, L, end)
               IN [err |-> rest.err,
                   units |-> IF rest.err = "none"
                             THEN << <<unit_type_of(bs[off + L + 1]),
                                       SubSeq(bs, off + 1, end)>> >>
                                  \o rest.units
                             ELSE <<>>]

\* list(parse_v3c_units(bs)) (multiplexer.py 52-55 over 6-25)
list_parse_v3c_units(bs) ==
  IF bs = <<>> THEN [err |-> "none", units |-> <<>>]
  ELSE parse_from(bs, (bs[1] \div 32) + 1, 1)

NoSelection == [header_byte |-> <<>>, vps |-> <<>>, ad |-> <<>>,
                ovd |-> <<>>, gvd |-> <<>>, avd |-> <<>>]

CombineIdle ==
  /\ cpc = "idle"
  /\ cexc = "none"
  /\ track_len = [t \in Tracks |-> 0]
  /\ track_data = <<>>
  /\ files_read = 0
  /\ out_dir_created = FALSE
  /\ seg_i = 0
  /\ selected = NoSelection
  /\ combined = <<>>

\* 29-32: the four sorted lists of segment files
CombineInit ==
  /\ cpc = "34"
  /\ cexc = "none"
  /\ track_len \in [Tracks -> 0..MaxSegments]
  /\ track_data = <<>>
  /\ files_read = 0
  /\ out_dir_created = FALSE
  /\ seg_i = 0
  /\ selected = NoSelection
  /\ combined = <<>>

\* Faulty variant of CombineCheck (a deliberately wrong translation): the
\* output directory is made before the lengths are compared.
CombineCheck_after_mkdir ==
  /\ cpc = "34"
  /\ out_dir_created' = TRUE
  /\ IF \E t \in Tracks : track_len[t] # track_len["atlas"]
     THEN cexc' = "RuntimeError" /\ cpc' = "done"
     ELSE cpc' = "37" /\ UNCHANGED cexc
  /\ UNCHANGED <<track_len, track_data, files_read, seg_i, selected,
                 combined>>
  /\ UNCHANGED <<schedVars, buildVars, parseVars, cellVars, tileVars, configVars,
                 laterVars>>

\* 34-35: the lengths of the four lists must be equal
CombineCheck ==
  /\ cpc = "34"
  /\ IF \E t \in Tracks : track_len[t] # track_len["atlas"]
     THEN cexc' = "RuntimeError" /\ cpc' = "done"
     ELSE cpc' = "37" /\ UNCHANGED cexc
  /\ UNCHANGED <<track_len, track_data, files_read, out_dir_created, seg_i,
                 selected, combined>>
  /\ UNCHANGED <<schedVars, buildVars, parseVars, cellVars, tileVars, configVars,
                 laterVars>>

\* 37: output_root.mkdir(parents=True, exist_ok=True)
CombineMkdir ==
  /\ cpc = "37"
  /\ out_dir_created' = TRUE
  /\ cpc' = "41"
  /\ UNCHANGED <<cexc, track_len, track_data, files_read, seg_i, selected,
                 combined>>
  /\ UNCHANGED <<schedVars, buildVars, parseVars, cellVars, tileVars, configVars,
                 laterVars>>

\* 42-49: the next index, the four files are read (their contents are
\* whatever the files hold); or range(n) is exhausted
CombineRead ==
  /\ cpc = "41"
  /\ IF seg_i < track_len["atlas"]
     THEN /\ \E d \in [Tracks -> TrackStreams] :
               track_data' = Append(track_data, d)
          /\ files_read' = files_read + 4
          /\ cpc' = "52"
     ELSE /\ cpc' = "done"
          /\ UNCHANGED <<track_data, files_read>>
  /\ UNCHANGED <<cexc, track_len, out_dir_created, seg_i, selected, combined>>
  /\ UNCHANGED <<schedVars, buildVars, parseVars, cellVars, tileVars, configVars,
                 laterVars>>

\* the first error among e1, e2, ... in evaluation order
RECURSIVE FirstError(_)
FirstError(es) ==
  IF es = <<>> THEN "none"
  ELSE IF Head(es) # "none" THEN Head(es)
  ELSE FirstError(Tail(es))

\* units[k][1] on a list: IndexError when the list is too short
ItemError(us, k) == IF Len(us) < k THEN "IndexError" ELSE "none"

\* Faulty variant of Select (a deliberately wrong translation): the first
\* unit of the occupancy track is taken.
Select_first_occupancy_unit(d) ==
  LET atlas_units == list_parse_v3c_units(d["atlas"])
      occp_units == list_parse_v3c_units(d["occp"])
      geom_units == list_parse_v3c_units(d["geom"])
      attr_units == list_parse_v3c_units(d["attr"])
      e == FirstError(<<atlas_units.err, occp_units.err, geom_units.err,
                        attr_units.err,
                        ItemError(atlas_units.units, 1),
                        ItemError(atlas_units.units, 2),
                        ItemError(occp_units.units, 2),
                        ItemError(geom_units.units, 2),
                        ItemError(attr_units.units, 2),
                        IF d["atlas"] = <<>> THEN "IndexError" ELSE "none">>)
  IN IF e # "none" THEN [err |-> e, value |-> NoSelection]
     ELSE [err |-> "none",
           value |-> [header_byte |-> <<d["atlas"][1]>>,
                      vps |-> atlas_units.units[1][2],
                      ad |-> atlas_units.units[2][2],
                      ovd |-> occp_units.units[1][2],
                      gvd |-> geom_units.units[2][2],
                      avd |-> attr_units.units[2][2]]]

\* 52-64: the four parses, the five units and the header byte
Select(d) ==
  LET atlas_units == list_parse_v3c_units(d["atlas"])
      occp_units == list_parse_v3c_units(d["occp"])
      geom_units == list_parse_v3c_units(d["geom"])
      attr_units == list_parse_v3c_units(d["attr"])
      e == FirstError(<<atlas_units.err, occp_units.err, geom_units.err,
                        attr_units.err,
                        ItemError(atlas_units.units, 1),
                        ItemError(atlas_units.units, 2),
                        ItemError(occp_units.units, 2),
                        ItemError(geom_units.units, 2),
                        ItemError(attr_units.units, 2),
                        IF d["atlas"] = <<>> THEN "IndexError" ELSE "none">>)
  IN IF e # "none" THEN [err |-> e, value |-> NoSelection]
     ELSE [err |-> "none",
           value |-> [header_byte |-> <<d["atlas"][1]>>,
                      vps |-> atlas_units.units[1][2],
                      ad |-> atlas_units.units[2][2],
                      ovd |-> occp_units.units[2][2],
                      gvd |-> geom_units.units[2][2],
                      avd |-> attr_units.units[2][2]]]

\* Faulty variant of CombineSelect (a deliberately wrong translation): an
\* error of a segment is swallowed and the loop goes on with the next one.
CombineSelect_skips_segment ==
  /\ cpc = "52"
  /\ LET r == Select(track_data[Len(track_data)])
     IN IF r.err # "none"
        THEN /\ seg_i' = seg_i + 1
             /\ cpc' = "41"
             /\ UNCHANGED <<selected, cexc>>
        ELSE /\ selected' = r.value
             /\ cpc' = "67"
             /\ UNCHANGED <<cexc, seg_i>>
  /\ UNCHANGED <<track_len, track_data, files_read, out_dir_created,
                 combined>>
  /\ UNCHANGED <<schedVars, buildVars, parseVars, cellVars, tileVars, configVars,
                 laterVars>>

\* 52-64 for the segment just read
CombineSelect ==
  /\ cpc = "52"
  /\ LET r == Select(track_data[Len(track_data)])
     IN IF r.err # "none"
        THEN cexc' = r.err /\ cpc' = "done" /\ UNCHANGED selected
        ELSE selected' = r.value /\ cpc' = "67" /\ UNCHANGED cexc
  /\ UNCHANGED <<track_len, track_data, files_read, out_dir_created, seg_i,
                 combined>>
  /\ UNCHANGED <<schedVars, buildVars, parseVars, cellVars, tileVars, configVars,
                 laterVars>>

\* Faulty variant of CombineWrite (a deliberately wrong translation): the
\* header byte is not written.
CombineWrite_without_header ==
  /\ cpc = "67"
  /\ combined' = Append(combined,
                        selected.vps \o selected.ad
                          \o selected.ovd \o selected.gvd \o selected.avd)
  /\ seg_i' = seg_i + 1
  /\ cpc' = "41"
  /\ UNCHANGED <<cexc, track_len, track_data, files_read, out_dir_created,
                 selected>>
  /\ UNCHANGED <<schedVars, buildVars, parseVars, cellVars, tileVars, configVars,
                 laterVars>>

\* 67-74: the output file segment_{i+1:04d}.bin is written
CombineWrite ==
  /\ cpc = "67"
  /\ combined' = Append(combined,
                        selected.header_byte \o selected.vps \o selected.ad
                          \o selected.ovd \o selected.gvd \o selected.avd)
  /\ seg_i' = seg_i + 1
  /\ cpc' = "41"
  /\ UNCHANGED <<cexc, track_len, track_data, files_read, out_dir_created,
                 selected>>
  /\ UNCHANGED <<schedVars, buildVars, parseVars, cellVars, tileVars, configVars,
                 laterVars>>

(* ====== tile assignment (tile_generator.py 41-49, 126-139) ============= *)
\* Coordinates are integers.  A cell width dx is a positive rational kept as
\* <<numerator, denominator>>.
Axes == 1..3

\* the coordinates of the corners of a bounding box
Coords == 0..2

\* 128-130: dx = max((x_max - x_min) / n, 1e-9), for integer corners
cell_width(lo, hi, n) ==
  IF hi - lo = 0 THEN <<1, 1000000000>> ELSE <<hi - lo, n>>

\* 134-138: boundaries_meta of a box with corners lo and hi and grid n
boundaries_meta_of(lo, hi, n) ==
  [min |-> lo,
   d |-> [ax \in Axes |-> cell_width(lo[ax], hi[ax], n[ax])],
   n |-> n]

\* 41-43: np.floor((v - v_min) / dv).astype(int)
floor_index(v, v_min, dv) == ((v - v_min) * dv[2]) \div dv[1]

\* Faulty variant of clip (a deliberately wrong translation): only the
\* lower limit is applied.
clip_lower_only(v, lo, hi) == IF v < lo THEN lo ELSE v

\* 45-47: np.clip(v, lo, hi)
clip(v, lo, hi) == IF v < lo THEN lo ELSE IF v > hi THEN hi ELSE v

\* Faulty variant of tile_id_of (a deliberately wrong translation): the
\* strides of the x and y indices are missing.
tile_id_of_without_strides(idx, n) == idx[1] + idx[2] + idx[3]

\* 49: tile_ids = ix * (ny * nz) + iy * nz + iz
tile_id_of(idx, n) == idx[1] * (n[2] * n[3]) + idx[2] * n[3] + idx[3]

NoMeta == [min |-> <<0, 0, 0>>,
           d |-> [ax \in Axes |-> <<1, 1>>],
           n |-> <<1, 1, 1>>]

Boxes == {bx \in [lo : [Axes -> Coords], hi : [Axes -> Coords]] :
            \A ax \in Axes : bx.lo[ax] <= bx.hi[ax]}
Grids == [Axes -> 1..MaxGrid]

CellIdle ==
  /\ kpc = "idle"
  /\ cell_meta = NoMeta
  /\ cell_point = <<0, 0, 0>>
  /\ cell_raw = <<0, 0, 0>>
  /\ cell_idx = <<0, 0, 0>>
  /\ cell_tile = 0

\* _process_frame is called with the boundaries of some box and grid
CellInit ==
  /\ kpc = "41"
  /\ \E bx \in Boxes, n \in Grids :
       cell_meta = boundaries_meta_of(bx.lo, bx.hi, n)
  /\ cell_point = <<0, 0, 0>>
  /\ cell_raw = <<0, 0, 0>>
  /\ cell_idx = <<0, 0, 0>>
  /\ cell_tile = 0

\* 41-43 for one row of the frame: a point inside the box, on its faces, or
\* one unit outside of it
CellFloor ==
  /\ kpc = "41"
  /\ \E pt \in [Axes -> -1..3] :
       /\ \A ax \in Axes :
            /\ pt[ax] >= cell_meta.min[ax] - 1
            /\ cell_meta.d[ax] = <<1, 1000000000>>
                 => pt[ax] <= cell_meta.min[ax] + 1
       /\ cell_point' = pt
       /\ cell_raw' = [ax \in Axes |->
                         floor_index(pt[ax], cell_meta.min[ax], cell_meta.d[ax])]
  /\ kpc' = "45"
  /\ UNCHANGED <<cell_meta, cell_idx, cell_tile>>
  /\ UNCHANGED <<schedVars, buildVars, parseVars, combineVars, tileVars, configVars,
                 laterVars>>

\* 45-47
CellClip ==
  /\ kpc = "45"
  /\ cell_idx' = [ax \in Axes |-> clip(cell_raw[ax], 0, cell_meta.n[ax] - 1)]
  /\ kpc' = "49"
  /\ UNCHANGED <<cell_meta, cell_point, cell_raw, cell_tile>>
  /\ UNCHANGED <<schedVars, buildVars, parseVars, combineVars, tileVars, configVars,
                 laterVars>>

\* 49
CellTile ==
  /\ kpc = "49"
  /\ cell_tile' = tile_id_of(cell_idx, cell_meta.n)
  /\ kpc' = "done"
  /\ UNCHANGED <<cell_meta, cell_point, cell_raw, cell_idx>>
  /\ UNCHANGED <<schedVars, buildVars, parseVars, combineVars, tileVars, configVars,
                 laterVars>>

(* ====== generate_tiles_from_frames (tile_generator.py 32-73, 88-259) === *)
\* A frame is the content of its .ply file: whether PlyIO.read succeeds,
\* the rows (x, y, z, r) with finite coordinates, and the number of rows
\* whose coordinates are NaN.  The frames a run may be given: an unreadable
\* file; a file without rows; two rows at opposite corners; three rows whose
\* mean is not an integer; a row next to a row of NaN coordinates.
FrameKinds ==
  {[readable |-> FALSE, nan_rows |-> 0, points |-> <<>>],
   [readable |-> TRUE, nan_rows |-> 0, points |-> <<>>],
   [readable |-> TRUE, nan_rows |-> 0,
    points |-> << <<0, 0, 0, 200>>, <<2, 2, 2, 200>> >>],
   [readable |-> TRUE, nan_rows |-> 0,
    points |-> << <<0, 0, 0, 200>>, <<0, 0, 0, 200>>, <<1, 0, 0, 200>> >>],
   [readable |-> TRUE, nan_rows |-> 1, points |-> << <<1, 1, 1, 200>> >>]}

\* 103: df.empty
df_empty(fr) == Len(fr.points) + fr.nan_rows = 0

\* 96-104: the frames that enter the bounding box
RECURSIVE frames_in_box(_)
frames_in_box(fs) ==
  IF fs = <<>> THEN <<>>
  ELSE IF Head(fs).readable /\ ~df_empty(Head(fs))
  THEN <<Head(fs)>> \o frames_in_box(Tail(fs))
  ELSE frames_in_box(Tail(fs))

\* the rows with finite coordinates of a list of frames (min, max and sum
\* of a column skip NaN)
RECURSIVE finite_rows(_)
finite_rows(fs) ==
  IF fs = <<>> THEN <<>> ELSE Head(fs).points \o finite_rows(Tail(fs))

\* 117-118: n_total counts every row
RECURSIVE n_total_of(_)
n_total_of(fs) ==
  IF fs = <<>> THEN 0
  ELSE Len(Head(fs).points) + Head(fs).nan_rows + n_total_of(Tail(fs))

\* 119-121: sum of one column
RECURSIVE column_sum(_, _)
column_sum(rows, ax) ==
  IF rows = <<>> THEN 0 ELSE Head(rows)[ax] + column_sum(Tail(rows), ax)

NoBoundaries == [none |-> TRUE, meta |-> NoMeta, total_tiles |-> 0,
                 centroid |-> [ax \in Axes |-> <<0, 1>>]]

\* _compute_segment_boundaries (88-139); the centroid is kept as the
\* rationals <<sum, n_total>>
_compute_segment_boundaries(seg_frames, n) ==
  LET used == frames_in_box(seg_frames)
      rows == finite_rows(used)
      column(ax) == {rows[k][ax] : k \in 1..Len(rows)}
  IN IF used = <<>> THEN NoBoundaries
     ELSE [none |-> FALSE,
           meta |-> boundaries_meta_of([ax \in Axes |-> SetMin(column(ax))],
                                       [ax \in Axes |-> SetMax(column(ax))],
                                       n),
           total_tiles |-> n[1] * n[2] * n[3],
           centroid |-> [ax \in Axes |->
                           <<column_sum(rows, ax), n_total_of(used)>>]]

\* 196-214: the tile records of a segment, in the order of the three loops;
\* a bound is the rational <<numerator, denominator>>
tile_bounds_of(meta) ==
  LET n == meta.n
      lower(ax, k) == <<meta.min[ax] * meta.d[ax][2] + k * meta.d[ax][1],
                        meta.d[ax][2]>>
      rec(xi, yi, zi) ==
        [id |-> xi * (n[2] * n[3]) + yi * n[3] + zi,
         xmin |-> lower(1, xi), xmax |-> lower(1, xi + 1),
         ymin |-> lower(2, yi), ymax |-> lower(2, yi + 1),
         zmin |-> lower(3, zi), zmax |-> lower(3, zi + 1)]
  IN [k \in 1..(n[1] * n[2] * n[3]) |->
        rec((k - 1) \div (n[2] * n[3]),
            ((k - 1) \div n[3]) % n[2],
            (k - 1) % n[3])]

\* 41-49 for one row
tile_of_row(row, meta) ==
  tile_id_of([ax \in Axes |->
                clip(floor_index(row[ax], meta.min[ax], meta.d[ax]),
                     0, meta.n[ax] - 1)],
             meta.n)

\* 53: df[tile_ids == t]
RECURSIVE rows_of_tile(_, _, _)
rows_of_tile(rows, t, meta) ==
  IF rows = <<>> THEN <<>>
  ELSE IF tile_of_row(Head(rows), meta) = t
  THEN <<Head(rows)>> \o rows_of_tile(Tail(rows), t, meta)
  ELSE rows_of_tile(Tail(rows), t, meta)

\* tile_io.py 126-130: a coordinate q = <<num, den>> >= 0 printed with "%f",
\* six digits after the point; the result in millionths
format_f(q) == (2 * q[1] * 1000000 + q[2]) \div (2 * q[2])

\* tile_io.py 113-130: a row as written: coordinates with "%f", r as uchar
written_row(x, y, z, r) ==
  <<format_f(x), format_f(y), format_f(z), r % 256>>

\* 58-71: the sub-frame of tile t as PlyIO.write puts it in the file
sub_frame(fr, t, bd) ==
  LET tile_df == rows_of_tile(fr.points, t, bd.meta)
  IN IF tile_df = <<>>
     THEN <<written_row(bd.centroid[1], bd.centroid[2], bd.centroid[3], 0)>>
     ELSE [k \in 1..Len(tile_df) |->
             written_row(<<tile_df[k][1], 1>>, <<tile_df[k][2], 1>>,
                         <<tile_df[k][3], 1>>, tile_df[k][4])]

FrameLists == UNION {[1..k -> FrameKinds] : k \in 0..MaxFrames}

\* the frames of the segment that starts at offset i
SegmentOf(i) ==
  {f \in 1..Len(frame_paths) : i < f /\ f <= i + segment_size}

TileIdle ==
  /\ tpc = "idle"
  /\ texc = "none"
  /\ frame_paths = <<>>
  /\ grid = <<1, 1, 1>>
  /\ segment_size = 1
  /\ seg_start = 0
  /\ boundaries_data = NoBoundaries
  /\ boundaries_per_segment = <<>>
  /\ frame_state = <<>>
  /\ consumed = 0
  /\ tile_files = <<>>
  /\ tlog = {}
  /\ reported = <<>>
  /\ manifest = <<>>
  /\ manifest_writes = 0

\* main.py 336-349: the generator is constructed and called with the frames
\* in the order of their numbers (line 167 sorts them)
TileInit ==
  /\ tpc = "148"
  /\ texc = "none"
  /\ frame_paths \in FrameLists
  /\ grid \in Grids
  /\ segment_size \in 1..MaxSegmentSize
  /\ seg_start = 0
  /\ boundaries_data = NoBoundaries
  /\ boundaries_per_segment = <<>>
  /\ frame_state = [f \in 1..Len(frame_paths) |-> "pending"]
  /\ consumed = 0
  /\ tile_files = [f \in 1..Len(frame_paths) |-> <<>>]
  /\ tlog = {}
  /\ reported = [f \in 1..Len(frame_paths) |-> "none"]
  /\ manifest = <<>>
  /\ manifest_writes = 0

\* main.py 314-315: the signal handler sets stop_event while the tiles are
\* generated
TileStop ==
  /\ tpc \notin {"idle", "done"}
  /\ ~stop_event
  /\ stop_event' = TRUE
  /\ UNCHANGED tileVars
  /\ UNCHANGED <<schedOfTile, buildVars, parseVars, combineVars, cellVars, configVars,
                 laterVars>>

\* 148-172: no frame: an error line and return
TileStart ==
  /\ tpc = "148"
  /\ tpc' = IF frame_paths = <<>> THEN "done" ELSE "174"
  /\ UNCHANGED <<texc, frame_paths, grid, segment_size, seg_start,
                 boundaries_data, boundaries_per_segment, frame_state,
                 consumed, tile_files, tlog, reported, manifest,
                 manifest_writes>>
  /\ UNCHANGED <<schedVars, buildVars, parseVars, combineVars, cellVars, configVars,
                 laterVars>>

\* Faulty variant of TileSegment (a deliberately wrong translation): the
\* stop request is not looked at.
TileSegment_ignores_stop ==
  /\ tpc = "174"
  /\ IF seg_start >= Len(frame_paths)
     THEN /\ tpc' = "247"
          /\ UNCHANGED <<seg_start, boundaries_data, boundaries_per_segment>>
     ELSE LET seg_frames == SubSeq(frame_paths, seg_start + 1,
                                   IF seg_start + segment_size < Len(frame_paths)
                                   THEN seg_start + segment_size
                                   ELSE Len(frame_paths))
              bd == _compute_segment_boundaries(seg_frames, grid)
              seg_idx == (seg_start \div segment_size) + 1
          IN IF bd.none
             THEN /\ seg_start' = seg_start + segment_size
                  /\ UNCHANGED <<tpc, boundaries_data, boundaries_per_segment>>
             ELSE /\ boundaries_data' = bd
                  /\ boundaries_per_segment' =
                       (seg_idx :> tile_bounds_of(bd.meta))
                         @@ boundaries_per_segment
                  /\ tpc' = "218"
                  /\ UNCHANGED seg_start
  /\ consumed' = 0
  /\ UNCHANGED <<texc, frame_paths, grid, segment_size, frame_state,
                 tile_files, tlog, reported, manifest, manifest_writes>>
  /\ UNCHANGED <<schedVars, buildVars, parseVars, combineVars, cellVars, configVars,
                 laterVars>>

\* 174-230: the head of the loop over the segments: the end of the range or
\* the stop request leave the loop; a segment without readable rows is
\* passed over; otherwise its boundaries are computed and recorded and its
\* frames are handed to the pool
TileSegment ==
  /\ tpc = "174"
  /\ IF seg_start >= Len(frame_paths) \/ stop_event
     THEN /\ tpc' = "247"
          /\ UNCHANGED <<seg_start, boundaries_data, boundaries_per_segment>>
     ELSE LET seg_frames == SubSeq(frame_paths, seg_start + 1,
                                   IF seg_start + segment_size < Len(frame_paths)
                                   THEN seg_start + segment_size
                                   ELSE Len(frame_paths))
              bd == _compute_segment_boundaries(seg_frames, grid)
              seg_idx == (seg_start \div segment_size) + 1
          IN IF bd.none
             THEN /\ seg_start' = seg_start + segment_size
                  /\ UNCHANGED <<tpc, boundaries_data, boundaries_per_segment>>
             ELSE /\ boundaries_data' = bd
                  /\ boundaries_per_segment' =
                       (seg_idx :> tile_bounds_of(bd.meta))
                         @@ boundaries_per_segment
                  /\ tpc' = "218"
                  /\ UNCHANGED seg_start
  /\ consumed' = 0
  /\ UNCHANGED <<texc, frame_paths, grid, segment_size, frame_state,
                 tile_files, tlog, reported, manifest, manifest_writes>>
  /\ UNCHANGED <<schedVars, buildVars, parseVars, combineVars, cellVars, configVars,
                 laterVars>>

\* _process_frame (32-73) for frame f, in a process of the pool: the read
\* fails and the failure is returned; or the tile assignment raises on a
\* NaN coordinate; or the sub-frames are written, tile 0 first, until all
\* are written or a write raises
TileProcessFrame(f) ==
  /\ tpc = "218"
  /\ f \in SegmentOf(seg_start)
  /\ frame_state[f] = "pending"
  /\ LET fr == frame_paths[f]
     IN IF ~fr.readable
        THEN /\ frame_state' = [frame_state EXCEPT ![f] = "read_failed"]
             /\ tlog' = tlog \cup {f}
             /\ UNCHANGED tile_files
        ELSE IF fr.nan_rows > 0
        THEN /\ frame_state' = [frame_state EXCEPT ![f] = "raised"]
             /\ UNCHANGED <<tlog, tile_files>>
        ELSE \E count \in 0..boundaries_data.total_tiles :
               /\ tile_files' =
                    [tile_files EXCEPT
                       ![f] = [k \in 1..count |->
                                 sub_frame(fr, k - 1, boundaries_data)]]
               /\ frame_state' =
                    [frame_state EXCEPT
                       ![f] = IF count = boundaries_data.total_tiles
                              THEN "ok" ELSE "raised"]
               /\ UNCHANGED tlog
  /\ UNCHANGED <<tpc, texc, frame_paths, grid, segment_size, seg_start,
                 boundaries_data, boundaries_per_segment, consumed, reported,
                 manifest, manifest_writes>>
  /\ UNCHANGED <<schedVars, buildVars, parseVars, combineVars, cellVars, configVars,
                 laterVars>>

\* 232-240: the next result of exe.map, in the order of the frames: a
\* returned tuple is logged; an exception raised by _process_frame is
\* raised again here, leaves generate_tiles_from_frames, and the calls of
\* the segment that have not started are cancelled
TileResult ==
  /\ tpc = "218"
  /\ LET f == seg_start + consumed + 1
     IN /\ f \in SegmentOf(seg_start)
        /\ frame_state[f] # "pending"
        /\ IF frame_state[f] = "raised"
           THEN /\ texc' = "Exception"
                /\ tpc' = "done"
                /\ frame_state' =
                     [g \in 1..Len(frame_paths) |->
                        IF g \in SegmentOf(seg_start)
                           /\ frame_state[g] = "pending"
                        THEN "cancelled" ELSE frame_state[g]]
                /\ UNCHANGED <<consumed, tlog, reported>>
           ELSE /\ reported' =
                     [reported EXCEPT
                        ![f] = IF frame_state[f] = "ok" THEN "success"
                               ELSE "failure"]
                /\ tlog' = IF frame_state[f] = "ok" THEN tlog
                           ELSE tlog \cup {f}
                /\ consumed' = consumed + 1
                /\ UNCHANGED <<texc, tpc, frame_state>>
  /\ UNCHANGED <<frame_paths, grid, segment_size, seg_start, boundaries_data,
                 boundaries_per_segment, tile_files, manifest,
                 manifest_writes>>
  /\ UNCHANGED <<schedVars, buildVars, parseVars, combineVars, cellVars, configVars,
                 laterVars>>

\* Faulty variant of TileSegmentEnd (a deliberately wrong translation): the
\* loop goes on to the next segment without taking the results of the
\* frames handed to the pool.
TileSegmentEnd_without_results ==
  /\ tpc = "218"
  /\ seg_start' = seg_start + segment_size
  /\ tpc' = "174"
  /\ UNCHANGED <<texc, frame_paths, grid, segment_size, boundaries_data,
                 boundaries_per_segment, frame_state, consumed, tile_files,
                 tlog, reported, manifest, manifest_writes>>
  /\ UNCHANGED <<schedVars, buildVars, parseVars, combineVars, cellVars, configVars,
                 laterVars>>

\* 242-245: every result of the segment was taken: the next segment
TileSegmentEnd ==
  /\ tpc = "218"
  /\ seg_start + consumed + 1 \notin SegmentOf(seg_start)
  /\ seg_start' = seg_start + segment_size
  /\ tpc' = "174"
  /\ UNCHANGED <<texc, frame_paths, grid, segment_size, boundaries_data,
                 boundaries_per_segment, frame_state, consumed, tile_files,
                 tlog, reported, manifest, manifest_writes>>
  /\ UNCHANGED <<schedVars, buildVars, parseVars, combineVars, cellVars, configVars,
                 laterVars>>

\* 247-259: tile_boundaries.json is written when a segment has boundaries;
\* a failure of the write is caught and logged
TileManifest ==
  /\ tpc = "247"
  /\ IF boundaries_per_segment # <<>>
     THEN \E written \in BOOLEAN :
            IF written
            THEN /\ manifest' = boundaries_per_segment
                 /\ manifest_writes' = manifest_writes + 1
            ELSE UNCHANGED <<manifest, manifest_writes>>
     ELSE UNCHANGED <<manifest, manifest_writes>>
  /\ tpc' = "done"
  /\ UNCHANGED <<texc, frame_paths, grid, segment_size, seg_start,
                 boundaries_data, boundaries_per_segment, frame_state,
                 consumed, tile_files, tlog, reported>>
  /\ UNCHANGED <<schedVars, buildVars, parseVars, combineVars, cellVars, configVars,
                 laterVars>>

(* ====== main(): directories, log and validation (main.py 84-310) ======= *)
\* A part of an item of --qp-pairs: a decimal integer, or text int() rejects
Part(v) == [is_int |-> TRUE, val |-> v]
NotInt == [is_int |-> FALSE, val |-> 0]

\* The values of --qp-pairs, each as the items between the commas (after
\* strip), each item as its parts between the colons: "" ; "1:2:3" ;
\* "1:2" ; "-1:2:3" ; "1:2:3,,4:5:6" ; "a:2:3" ; "1:2:3,1:2:3:4"
QPStrings ==
  {<< <<>> >>,
   << <<Part(1), Part(2), Part(3)>> >>,
   << <<Part(1), Part(2)>> >>,
   << <<Part(-1), Part(2), Part(3)>> >>,
   << <<Part(1), Part(2), Part(3)>>, <<>>, <<Part(4), Part(5), Part(6)>> >>,
   << <<NotInt, Part(2), Part(3)>> >>,
   << <<Part(1), Part(2), Part(3)>>,
      <<Part(1), Part(2), Part(3), Part(4)>> >>}

\* parse_qp_pairs (146-159): the triplets, or ValueError
RECURSIVE parse_qp_pairs(_)
parse_qp_pairs(value) ==
  IF value = <<>> THEN [error |-> FALSE, pairs |-> <<>>]
  ELSE LET item == Head(value)
           rest == parse_qp_pairs(Tail(value))
       IN IF item = <<>> THEN rest
          ELSE IF Len(item) # 3 \/ \E k \in 1..Len(item) : ~item[k].is_int
          THEN [error |-> TRUE, pairs |-> <<>>]
          ELSE IF rest.error THEN rest
          ELSE [error |-> FALSE,
                pairs |-> << <<item[1].val, item[2].val, item[3].val>> >>
                            \o rest.pairs]

\* validate_qp_pairs (162-170): TRUE when it raises
validate_qp_pairs_raises(pairs) ==
  \/ pairs = <<>>
  \/ \E k \in 1..Len(pairs) : \E c \in 1..3 : pairs[k][c] < 0

\* validate_segment_settings (183-193): TRUE when it raises
validate_segment_settings_raises(size, gof) ==
  \/ size <= 0
  \/ gof <= 0
  \/ size % gof # 0

\* validate_tiling_settings (205-207): TRUE when it raises
validate_tiling_settings_raises(n) == \E ax \in Axes : n[ax] <= 0

\* Faulty variant of resolve_threads_per_instance (a deliberately wrong
\* translation): the requested value is not capped to the parallelism.
resolve_threads_per_instance_uncapped(parallelism, threads) ==
  IF ~threads.given THEN 1
  ELSE IF threads.value <= 0 THEN 0
  ELSE threads.value

\* resolve_threads_per_instance (232-248): the option is absent (None), or
\* not positive (raises, result 0 here), or capped to the parallelism
resolve_threads_per_instance(parallelism, threads) ==
  IF ~threads.given THEN 1
  ELSE IF threads.value <= 0 THEN 0
  ELSE IF threads.value > parallelism THEN parallelism
  ELSE threads.value

ArgInts == (0 - 1)..MaxArg

\* parse_args (275): the options the validation reads; --frame-count,
\* --start-frame-number and --vox are not given
ArgSets ==
  [segment_size : ArgInts, encoder_gof : ArgInts,
   n : [Axes -> 0..1], frame_rate : {0, 30},
   encoding_parallelism : ArgInts,
   encoding_threads_per_instance :
     [given : {TRUE}, value : ArgInts] \cup {[given |-> FALSE, value |-> 0]},
   qp_pairs : QPStrings]

ConfigIdle ==
  /\ gpc = "idle"
  /\ gexc = "none"
  /\ args = [segment_size |-> 1, encoder_gof |-> 1,
             n |-> [ax \in Axes |-> 1], frame_rate |-> 30,
             encoding_parallelism |-> 1,
             encoding_threads_per_instance |-> [given |-> FALSE, value |-> 0],
             qp_pairs |-> << <<>> >>]
  /\ out_dirs_created = FALSE
  /\ log_dirs_created = FALSE
  /\ run_log = <<>>
  /\ threads_per_instance = 0
  /\ stage_started = FALSE

\* 275-282: the command line is parsed, nothing exists yet
ConfigInit ==
  /\ gpc = "284"
  /\ gexc = "none"
  /\ args \in ArgSets
  /\ out_dirs_created = FALSE
  /\ log_dirs_created = FALSE
  /\ run_log = <<>>
  /\ threads_per_instance = 0
  /\ stage_started = FALSE

\* log_and_raise (84-88): the message goes to the log file, then the
\* RuntimeError leaves main()
log_and_raise(message) ==
  /\ run_log' = Append(run_log, message)
  /\ gexc' = message
  /\ gpc' = "exit"

\* 284-285: the output directories are created
MainMkdirs ==
  /\ gpc = "284"
  /\ out_dirs_created' = TRUE
  /\ gpc' = "287"
  /\ UNCHANGED <<gexc, args, log_dirs_created, run_log, threads_per_instance,
                 stage_started>>
  /\ UNCHANGED <<schedVars, buildVars, parseVars, combineVars, cellVars,
                 tileVars, laterVars>>

\* 287, init_log_dir (107-130): the run's log directories are created and
\* the header is written to run.log
MainInitLog ==
  /\ gpc = "287"
  /\ log_dirs_created' = TRUE
  /\ run_log' = Append(run_log, "header")
  /\ gpc' = "289"
  /\ UNCHANGED <<gexc, args, out_dirs_created, threads_per_instance,
                 stage_started>>
  /\ UNCHANGED <<schedVars, buildVars, parseVars, combineVars, cellVars,
                 tileVars, laterVars>>

\* 289: validate_segment_settings (183-202)
MainValidateSegment ==
  /\ gpc = "289"
  /\ IF validate_segment_settings_raises(args.segment_size, args.encoder_gof)
     THEN log_and_raise("segment settings")
     ELSE /\ run_log' = Append(run_log, "info")
          /\ gpc' = "290"
          /\ UNCHANGED gexc
  /\ UNCHANGED <<args, out_dirs_created, log_dirs_created,
                 threads_per_instance, stage_started>>
  /\ UNCHANGED <<schedVars, buildVars, parseVars, combineVars, cellVars,
                 tileVars, laterVars>>

\* 290: validate_tiling_settings (205-207)
MainValidateTiling ==
  /\ gpc = "290"
  /\ IF validate_tiling_settings_raises(args.n)
     THEN log_and_raise("tiling settings")
     ELSE /\ gpc' = "291"
          /\ UNCHANGED <<gexc, run_log>>
  /\ UNCHANGED <<args, out_dirs_created, log_dirs_created,
                 threads_per_instance, stage_started>>
  /\ UNCHANGED <<schedVars, buildVars, parseVars, combineVars, cellVars,
                 tileVars, laterVars>>

\* 291-297: validate_runtime_settings (210-224)
MainValidateRuntime ==
  /\ gpc = "291"
  /\ IF args.frame_rate <= 0
     THEN log_and_raise("runtime settings")
     ELSE /\ gpc' = "298"
          /\ UNCHANGED <<gexc, run_log>>
  /\ UNCHANGED <<args, out_dirs_created, log_dirs_created,
                 threads_per_instance, stage_started>>
  /\ UNCHANGED <<schedVars, buildVars, parseVars, combineVars, cellVars,
                 tileVars, laterVars>>

\* 298: validate_parallel_settings (227-229)
MainValidateParallel ==
  /\ gpc = "298"
  /\ IF args.encoding_parallelism <= 0
     THEN log_and_raise("parallel settings")
     ELSE /\ gpc' = "299"
          /\ UNCHANGED <<gexc, run_log>>
  /\ UNCHANGED <<args, out_dirs_created, log_dirs_created,
                 threads_per_instance, stage_started>>
  /\ UNCHANGED <<schedVars, buildVars, parseVars, combineVars, cellVars,
                 tileVars, laterVars>>

\* 299-304: resolve_threads_per_instance (232-248), then
\* max_parallel_encodes = max(1, parallelism // threads_per_instance)
MainResolveThreads ==
  /\ gpc = "299"
  /\ LET t == resolve_threads_per_instance(args.encoding_parallelism,
                                           args.encoding_threads_per_instance)
         q == IF t > 0 THEN args.encoding_parallelism \div t ELSE 0
     IN IF t = 0
        THEN /\ log_and_raise("threads per instance")
             /\ UNCHANGED <<threads_per_instance, max_parallel_encodes>>
        ELSE /\ threads_per_instance' = t
             /\ max_parallel_encodes' = IF q > 1 THEN q ELSE 1
             /\ run_log' =
                  IF args.encoding_threads_per_instance.given
                     /\ args.encoding_threads_per_instance.value
                          > args.encoding_parallelism
                  THEN Append(run_log, "warning") ELSE run_log
             /\ gpc' = "306"
             /\ UNCHANGED gexc
  /\ UNCHANGED <<args, out_dirs_created, log_dirs_created, stage_started>>
  /\ UNCHANGED <<schedOfConfig, buildVars, parseVars, combineVars, cellVars,
                 tileVars, laterVars>>

\* 306-310: parse_qp_pairs, its ValueError turned into log_and_raise, then
\* validate_qp_pairs
MainQP ==
  /\ gpc = "306"
  /\ LET parsed == parse_qp_pairs(args.qp_pairs)
     IN IF parsed.error \/ parsed.pairs = <<>>
        THEN log_and_raise("qp pairs")
        ELSE IF validate_qp_pairs_raises(parsed.pairs)
        THEN log_and_raise("qp triplet")
        ELSE /\ gpc' = "312"
             /\ UNCHANGED <<gexc, run_log>>
  /\ UNCHANGED <<args, out_dirs_created, log_dirs_created,
                 threads_per_instance, stage_started>>
  /\ UNCHANGED <<schedVars, buildVars, parseVars, combineVars, cellVars,
                 tileVars, laterVars>>

\* 312-350: the handlers are installed, the frames are listed and the first
\* stage of the pipeline begins
MainStartPipeline ==
  /\ gpc = "312"
  /\ stage_started' = TRUE
  /\ gpc' = "334"
  /\ UNCHANGED <<gexc, args, out_dirs_created, log_dirs_created, run_log,
                 threads_per_instance>>
  /\ UNCHANGED <<schedVars, buildVars, parseVars, combineVars, cellVars,
                 tileVars, laterVars>>

(* ====== the parameters and files of each job (tmc2_encoder.py) ========= *)
\* Strings are sequences of ASCII codes.
\* str() of a non-negative integer
RECURSIVE str(_)
str(n) == IF n < 10 THEN <<48 + n>> ELSE str(n \div 10) \o <<48 + (n % 10)>>

\* dict operations: d[k] = v, and d.setdefault(k, v)
dict_set(d, k, v) == [x \in DOMAIN d \cup {k} |-> IF x = k THEN v ELSE d[x]]
dict_setdefault(d, k, v) == IF k \in DOMAIN d THEN d ELSE dict_set(d, k, v)

\* the empty dict
EmptyDict == [x \in {} |-> 0]

\* DEFAULT_PARAMS (16-52), the keys the merge can touch and one it cannot;
\* the paths are "in", "out.bin" and "d%04d.ply"
DEFAULT_PARAMS ==
  [uncompressedDataFolder |-> <<105, 110>>,
   uncompressedDataPath |-> <<100, 37, 48, 52, 100, 46, 112, 108, 121>>,
   frameCount |-> 250,
   compressedStreamPath |-> <<111, 117, 116, 46, 98, 105, 110>>,
   nbThread |-> 8,
   occupancyMapQP |-> 24,
   geometryQP |-> 32,
   attributeQP |-> 43,
   startFrameNumber |-> 0,
   groupOfFramesSize |-> 16]

\* the base_params a caller may give: none; the frame count; the start
\* frame and a QP; the thread number and the two paths run() keeps; the
\* pattern "g%01d.ply"
BaseParamSets ==
  {EmptyDict,
   [frameCount |-> 5, groupOfFramesSize |-> 8],
   [startFrameNumber |-> 7, occupancyMapQP |-> 9],
   [nbThread |-> 3, compressedStreamPath |-> <<120>>,
    uncompressedDataFolder |-> <<121>>],
   [uncompressedDataPath |-> <<103, 37, 48, 49, 100, 46, 112, 108, 121>>]}

\* the tile directories of tiles_root, each with its name ("t1", "t2") and
\* the result of _derive_frame_sequence: the patterns are "f%04d.ply" and
\* "f%02d.ply"
JobTile1 == [dir |-> <<116, 49>>,
             pattern |-> <<102, 37, 48, 52, 100, 46, 112, 108, 121>>,
             start_frame |-> 0, frame_count |-> 10]
JobTile2 == [dir |-> <<116, 50>>,
             pattern |-> <<102, 37, 48, 50, 100, 46, 112, 108, 121>>,
             start_frame |-> 3, frame_count |-> 2]
JobTileLists == {<<JobTile1>>, <<JobTile2>>, <<JobTile1, JobTile2>>}

\* the normalized QP lists: one or two triplets, which may be equal
JobPairLists ==
  UNION {[1..n -> {<<1, 2, 3>>, <<12, 3, 4>>}] : n \in 1..2}

\* the name of tiles_root: "r"
tiles_dir_name == <<114>>

\* Faulty variant of tile_params_of (a deliberately wrong translation): the
\* values inferred from the tile replace those of base_params.
tile_params_inferred_win(base, threads, tile) ==
  LET p0 == IF threads # 0 THEN dict_set(base, "nbThread", threads) ELSE base
      p1 == dict_set(p0, "uncompressedDataPath", tile.pattern)
      p2 == dict_set(p1, "startFrameNumber", tile.start_frame)
  IN dict_set(p2, "frameCount", tile.frame_count)

\* 614-619: tile_params of one tile
tile_params_of(base, threads, tile) ==
  LET p0 == IF threads # 0 THEN dict_set(base, "nbThread", threads) ELSE base
      p1 == dict_setdefault(p0, "uncompressedDataPath", tile.pattern)
      p2 == dict_setdefault(p1, "startFrameNumber", tile.start_frame)
  IN dict_setdefault(p2, "frameCount", tile.frame_count)

\* 639-642: params_with_qp
params_with_qp_of(tile_params, qp) ==
  dict_set(dict_set(dict_set(tile_params, "occupancyMapQP", qp[1]),
                    "geometryQP", qp[2]),
           "attributeQP", qp[3])

\* 644: bitstream_name =
\* f"{tiles_dir.name}_{tile_dir.name}_occ{occ}_geo{geo}_attr{attr}.bin"
bitstream_name_of(tile_dir, qp) ==
  tiles_dir_name \o <<95>> \o tile_dir
    \o <<95, 111, 99, 99>> \o str(qp[1])
    \o <<95, 103, 101, 111>> \o str(qp[2])
    \o <<95, 97, 116, 116, 114>> \o str(qp[3])
    \o <<46, 98, 105, 110>>

\* 650: f"{tile_dir.name}_rep{qp_idx}_occ{occ}_geo{geo}_attr{attr}.log"
task_log_name_of(tile_dir, qp_idx, qp) ==
  tile_dir \o <<95, 114, 101, 112>> \o str(qp_idx)
    \o <<95, 111, 99, 99>> \o str(qp[1])
    \o <<95, 103, 101, 111>> \o str(qp[2])
    \o <<95, 97, 116, 116, 114>> \o str(qp[3])
    \o <<46, 108, 111, 103>>

\* the worker's output when it goes to no file (stdout=PIPE), and the path
\* of self.log_file: "encoding.log"
NoFile == <<>>
SelfLogFile == <<101, 110, 99, 111, 100, 105, 110, 103, 46, 108, 111, 103>>

\* 648-650 and run() 398-403: the file the worker's output is appended to
chosen_log_file_of(logs_dir, self_log, tile_dir, qp_idx, qp) ==
  IF logs_dir THEN task_log_name_of(tile_dir, qp_idx, qp)
  ELSE IF self_log THEN SelfLogFile
  ELSE NoFile

\* run() 360-368: encoder_params from DEFAULT_PARAMS, params and the name
\* of the output ("/" followed by the name stands for /data/output/name)
encoder_params_of(params, compressed_stream_filename) ==
  LET kept == {k \in DOMAIN params :
                 k \notin {"uncompressedDataFolder", "compressedStreamPath"}}
      merged == [k \in DOMAIN DEFAULT_PARAMS \cup kept |->
                   IF k \in kept THEN params[k] ELSE DEFAULT_PARAMS[k]]
  IN dict_set(merged, "compressedStreamPath",
              <<47>> \o compressed_stream_filename)

TaskIdle ==
  /\ epc = "idle"
  /\ base_params = EmptyDict
  /\ threads_arg = 0
  /\ job_pairs = <<>>
  /\ job_tiles = <<>>
  /\ encoding_logs_dir = FALSE
  /\ runner_log_file = FALSE
  /\ job_list = <<>>
  /\ worker_params = <<>>
  /\ worker_output = <<>>
  /\ worker_log = <<>>

\* 586-605: the arguments are accepted, the tile directories are listed
TaskInit ==
  /\ epc = "607"
  /\ base_params \in BaseParamSets
  /\ threads_arg \in {0, 2}
  /\ job_pairs \in JobPairLists
  /\ job_tiles \in JobTileLists
  /\ encoding_logs_dir \in BOOLEAN
  /\ runner_log_file \in BOOLEAN
  /\ job_list = <<>>
  /\ worker_params = <<>>
  /\ worker_output = <<>>
  /\ worker_log = <<>>

\* 607-625: tile_infos and tasks
TaskBuild ==
  /\ epc = "607"
  /\ job_list' =
       build_tasks(0, job_pairs,
                   [i \in 1..Len(job_tiles) |->
                      [dir |-> job_tiles[i].dir,
                       params |-> tile_params_of(base_params, threads_arg,
                                                 job_tiles[i])]])
  /\ worker_params' = [k \in 1..Len(job_list') |-> EmptyDict]
  /\ worker_output' = [k \in 1..Len(job_list') |-> NoFile]
  /\ worker_log' = [k \in 1..Len(job_list') |-> NoFile]
  /\ epc' = "634"
  /\ UNCHANGED <<base_params, threads_arg, job_pairs, job_tiles,
                 encoding_logs_dir, runner_log_file>>
  /\ UNCHANGED <<schedVars, beforeLater, progressVars, escalateVars, serverVars>>

\* encode_task (638-658) and run() (359-403) for task k, in any order of
\* the tasks: the parameters, the output name and the log file of its
\* worker
TaskEncode(k) ==
  /\ epc = "634"
  /\ k \in 1..Len(job_list)
  /\ worker_output[k] = NoFile
  /\ LET task == job_list[k]
         bitstream_name == bitstream_name_of(task.dir, task.qp)
     IN /\ worker_output' = [worker_output EXCEPT ![k] = bitstream_name]
        /\ worker_params' =
             [worker_params EXCEPT
                ![k] = encoder_params_of(params_with_qp_of(task.params,
                                                           task.qp),
                                         bitstream_name)]
        /\ worker_log' =
             [worker_log EXCEPT
                ![k] = chosen_log_file_of(encoding_logs_dir, runner_log_file,
                                          task.dir, task.qp_idx, task.qp)]
  /\ UNCHANGED <<epc, base_params, threads_arg, job_pairs, job_tiles,
                 encoding_logs_dir, runner_log_file, job_list>>
  /\ UNCHANGED <<schedVars, beforeLater, progressVars, escalateVars, serverVars>>

(* ====== encode_task 659-669: counter and progress lines ================ *)
ProgressIdle ==
  /\ lpc = [j \in Jobs |-> "idle"]
  /\ progress_lock = 0
  /\ lines = [j \in Jobs |-> 0]
  /\ shared_log = <<>>

\* run() has returned in the worker thread of every job (658); main.py
\* passes a log_file
ProgressInit ==
  /\ lpc = [j \in Jobs |-> "659"]
  /\ progress_lock = 0
  /\ lines = [j \in Jobs |-> 0]
  /\ shared_log = <<>>

\* main.py 314-315: the signal handler sets stop_event
ProgressStop ==
  /\ \E j \in Jobs : lpc[j] # "done"
  /\ ~stop_event
  /\ stop_event' = TRUE
  /\ UNCHANGED <<completed_tasks, progressVars>>
  /\ UNCHANGED <<schedOfProgress, beforeLater, taskVars, escalateVars, serverVars>>

\* 659: if log_file and not (stop_event and stop_event.is_set())
ProgressTest(j) ==
  /\ lpc[j] = "659"
  /\ lpc' = [lpc EXCEPT ![j] = IF stop_event THEN "done" ELSE "660"]
  /\ UNCHANGED <<progress_lock, lines, shared_log>>
  /\ UNCHANGED <<schedVars, beforeLater, taskVars, escalateVars, serverVars>>

\* 660: with progress_lock: the lock is acquired when it is free
ProgressAcquire(j) ==
  /\ lpc[j] = "660"
  /\ progress_lock = 0
  /\ progress_lock' = j
  /\ lpc' = [lpc EXCEPT ![j] = "661"]
  /\ UNCHANGED <<lines, shared_log>>
  /\ UNCHANGED <<schedVars, beforeLater, taskVars, escalateVars, serverVars>>

\* 661: completed_tasks += 1 reads the counter ...
ProgressRead(j) ==
  /\ lpc[j] = "661"
  /\ lines' = [lines EXCEPT ![j] = completed_tasks]
  /\ lpc' = [lpc EXCEPT ![j] = "661w"]
  /\ UNCHANGED <<progress_lock, shared_log>>
  /\ UNCHANGED <<schedVars, beforeLater, taskVars, escalateVars, serverVars>>

\* ... and stores it; 662-666: lines is built with the new value and the
\* with block ends: the lock is released
ProgressCount(j) ==
  /\ lpc[j] = "661w"
  /\ completed_tasks' = lines[j] + 1
  /\ lines' = [lines EXCEPT ![j] = lines[j] + 1]
  /\ progress_lock' = 0
  /\ lpc' = [lpc EXCEPT ![j] = "667"]
  /\ UNCHANGED shared_log
  /\ UNCHANGED <<schedOfProgress, stop_event, beforeLater, taskVars, escalateVars, serverVars>>

\* 667-669: the file is opened for appending, the two lines are written
\* and the file is closed: the buffered lines reach the file together
ProgressWrite(j) ==
  /\ lpc[j] = "667"
  /\ shared_log' = shared_log
                     \o <<[job |-> j, line |-> "Completed", k |-> lines[j]],
                          [job |-> j, line |-> "Encoding progress",
                           k |-> lines[j]]>>
  /\ lpc' = [lpc EXCEPT ![j] = "done"]
  /\ UNCHANGED <<progress_lock, lines>>
  /\ UNCHANGED <<schedVars, beforeLater, taskVars, escalateVars, serverVars>>

(* ====== cancellation of running jobs: run 413-436, cancel_all ========== *)
\* the jobs that are running when cancellation is requested: at most
\* max_parallel_encodes of them
EscJobs == 1..MaxParallel

\* ["docker", "kill", name] (170) sends SIGKILL to the container and
\* ["docker", "rm", "-f", name] (179) removes it by force; proc.kill()
\* sends SIGKILL to the process
ForceSignals == {"docker kill", "docker rm -f", "SIGKILL"}

\* proc.terminate() sends SIGTERM to the process, pkill -TERM -P to its
\* children
GracefulSignals == {"SIGTERM", "pkill -TERM"}

EscalateIdle ==
  /\ run_pc = [j \in EscJobs |-> "idle"]
  /\ cancel_all_pc = <<"idle", 0>>
  /\ worker = [j \in EscJobs |-> "none"]
  /\ sent = [j \in EscJobs |-> {}]
  /\ grace_elapsed = [j \in EscJobs |-> FALSE]

\* The jobs are running: their run() is in the loop of 413 and their
\* process and container are registered (411-412).  handle_term has set
\* stop_event (main.py 315) and calls cancel_all (main.py 317).
EscalateInit ==
  /\ run_pc = [j \in EscJobs |-> "415"]
  /\ cancel_all_pc = <<"454", 0>>
  /\ worker = [j \in EscJobs |-> "alive"]
  /\ sent = [j \in EscJobs |-> {}]
  /\ grace_elapsed = [j \in EscJobs |-> FALSE]

\* The `docker run` process of job j exits, by itself or because it or its
\* container was signalled.
EscWorkerExit(j) ==
  /\ worker[j] = "alive"
  /\ worker' = [worker EXCEPT ![j] = "exited"]
  /\ UNCHANGED <<run_pc, cancel_all_pc, sent, grace_elapsed>>
  /\ UNCHANGED <<schedVars, beforeLater, taskVars, progressVars, serverVars>>

\* 164-185: docker kill, then docker rm -f, on the container of job j
_kill_container(j) ==
  [sent EXCEPT ![j] = sent[j] \cup {"docker kill", "docker rm -f"}]

\* Popen.send_signal polls the process first: an exited process is not
\* signalled
send_signal(j, sig) ==
  IF worker[j] = "alive" THEN [sent EXCEPT ![j] = sent[j] \cup sig] ELSE sent

\* 415-422: proc.wait(timeout=0.5) returns when the process has exited
\* (break); on the timeout, _cancel_requested is true and
\* _kill_container(container_name) is called
EscRunWait(j) ==
  /\ run_pc[j] = "415"
  /\ IF worker[j] = "exited"
     THEN /\ run_pc' = [run_pc EXCEPT ![j] = "437"]
          /\ UNCHANGED sent
     ELSE /\ sent' = _kill_container(j)
          /\ run_pc' = [run_pc EXCEPT ![j] = "423"]
  /\ UNCHANGED <<cancel_all_pc, worker, grace_elapsed>>
  /\ UNCHANGED <<schedVars, beforeLater, taskVars, progressVars, serverVars>>

\* 423: proc.terminate()
EscRunTerminate(j) ==
  /\ run_pc[j] = "423"
  /\ sent' = send_signal(j, {"SIGTERM"})
  /\ run_pc' = [run_pc EXCEPT ![j] = "426"]
  /\ UNCHANGED <<cancel_all_pc, worker, grace_elapsed>>
  /\ UNCHANGED <<schedVars, beforeLater, taskVars, progressVars, serverVars>>

\* 424-430: proc.wait(timeout=5) returns when the process has exited
\* within the 5 s (break at 436); else TimeoutExpired, and proc.kill()
EscRunGrace(j) ==
  /\ run_pc[j] = "426"
  /\ IF worker[j] = "exited"
     THEN /\ run_pc' = [run_pc EXCEPT ![j] = "437"]
          /\ UNCHANGED <<sent, grace_elapsed>>
     ELSE /\ grace_elapsed' = [grace_elapsed EXCEPT ![j] = TRUE]
          /\ sent' = send_signal(j, {"SIGKILL"})
          /\ run_pc' = [run_pc EXCEPT ![j] = "432"]
  /\ UNCHANGED <<cancel_all_pc, worker>>
  /\ UNCHANGED <<schedVars, beforeLater, taskVars, progressVars, serverVars>>

\* 431-436: proc.wait(timeout=5) returns or times out; break
EscRunKillWait(j) ==
  /\ run_pc[j] = "432"
  /\ run_pc' = [run_pc EXCEPT ![j] = "437"]
  /\ UNCHANGED <<cancel_all_pc, worker, sent, grace_elapsed>>
  /\ UNCHANGED <<schedVars, beforeLater, taskVars, progressVars, serverVars>>

\* the element after index i of a snapshot of the registry, at line a; the
\* loop is left for line b after the last one
next_of(a, i, b) == IF i < MaxParallel THEN <<a, i + 1>> ELSE <<b, 1>>

\* 454-459: the flags are set and a snapshot of ACTIVE_CONTAINERS taken
EscCancelAllStart ==
  /\ cancel_all_pc = <<"454", 0>>
  /\ cancel_all_pc' = <<"464", 1>>
  /\ UNCHANGED <<run_pc, worker, sent, grace_elapsed>>
  /\ UNCHANGED <<schedVars, beforeLater, taskVars, progressVars, serverVars>>

\* 462-468: _kill_container(name) for each name of the snapshot; then the
\* registry is cleared and a snapshot of ACTIVE_PROCS taken
EscCancelAllContainer ==
  /\ cancel_all_pc[1] = "464"
  /\ sent' = _kill_container(cancel_all_pc[2])
  /\ cancel_all_pc' = next_of("464", cancel_all_pc[2], "474")
  /\ UNCHANGED <<run_pc, worker, grace_elapsed>>
  /\ UNCHANGED <<schedVars, beforeLater, taskVars, progressVars, serverVars>>

\* 471-477: if proc.poll() is None: pkill -TERM -P pid; proc.terminate()
EscCancelAllSignal ==
  /\ cancel_all_pc[1] = "474"
  /\ sent' = send_signal(cancel_all_pc[2], {"pkill -TERM", "SIGTERM"})
  /\ cancel_all_pc' = next_of("474", cancel_all_pc[2], "481")
  /\ UNCHANGED <<run_pc, worker, grace_elapsed>>
  /\ UNCHANGED <<schedVars, beforeLater, taskVars, progressVars, serverVars>>

\* 480-488: for each process of the snapshot that has not exited,
\* proc.wait(timeout=5) returns when it exits within the 5 s; else
\* TimeoutExpired, and proc.kill()
EscCancelAllGrace ==
  /\ cancel_all_pc[1] = "481"
  /\ LET j == cancel_all_pc[2] IN
       IF worker[j] = "exited"
       THEN /\ cancel_all_pc' = next_of("481", j, "498")
            /\ UNCHANGED <<sent, grace_elapsed>>
       ELSE /\ grace_elapsed' = [grace_elapsed EXCEPT ![j] = TRUE]
            /\ sent' = send_signal(j, {"SIGKILL"})
            /\ cancel_all_pc' = <<"490", j>>
  /\ UNCHANGED <<run_pc, worker>>
  /\ UNCHANGED <<schedVars, beforeLater, taskVars, progressVars, serverVars>>

\* 489-493: proc.wait(timeout=3) returns or times out
EscCancelAllKillWait ==
  /\ cancel_all_pc[1] = "490"
  /\ cancel_all_pc' = next_of("481", cancel_all_pc[2], "498")
  /\ UNCHANGED <<run_pc, worker, sent, grace_elapsed>>
  /\ UNCHANGED <<schedVars, beforeLater, taskVars, progressVars, serverVars>>

\* 498-499: the registry keeps the processes still alive; return
EscCancelAllEnd ==
  /\ cancel_all_pc[1] = "498"
  /\ cancel_all_pc' = <<"done", 0>>
  /\ UNCHANGED <<run_pc, worker, sent, grace_elapsed>>
  /\ UNCHANGED <<schedVars, beforeLater, taskVars, progressVars, serverVars>>

(* ====== the control server: run_pipeline (server.py 134-239) =========== *)
\* the /api/run requests, each handled in a thread of its own
Requests == 1..MaxRequests

ServerIdle ==
  /\ req_pc = [r \in Requests |-> "idle"]
  /\ response = [r \in Requests |-> 0]
  /\ _current_proc = 0
  /\ pipeline = [r \in Requests |-> "none"]
  /\ mon_pc = [r \in Requests |-> "idle"]

\* 19: _current_proc = None; no request has arrived
ServerInit ==
  /\ req_pc = [r \in Requests |-> "arriving"]
  /\ response = [r \in Requests |-> 0]
  /\ _current_proc = 0
  /\ pipeline = [r \in Requests |-> "none"]
  /\ mon_pc = [r \in Requests |-> "idle"]

\* 135-203: the request is taken by a thread; the command line is built
ServerRequest(r) ==
  /\ req_pc[r] = "arriving"
  /\ req_pc' = [req_pc EXCEPT ![r] = "204"]
  /\ UNCHANGED <<response, _current_proc, pipeline, mon_pc>>
  /\ UNCHANGED <<schedVars, beforeLater, taskVars, progressVars, escalateVars>>

\* 204-205: if _current_proc and _current_proc.poll() is None: 409
ServerTest(r) ==
  /\ req_pc[r] = "204"
  /\ IF _current_proc # 0 /\ pipeline[_current_proc] = "running"
     THEN /\ response' = [response EXCEPT ![r] = 409]
          /\ req_pc' = [req_pc EXCEPT ![r] = "done"]
     ELSE /\ req_pc' = [req_pc EXCEPT ![r] = "209"]
          /\ UNCHANGED response
  /\ UNCHANGED <<_current_proc, pipeline, mon_pc>>
  /\ UNCHANGED <<schedVars, beforeLater, taskVars, progressVars, escalateVars>>

\* 208-209: subprocess.Popen starts the pipeline, or raises (231-233: 500)
ServerPopen(r) ==
  /\ req_pc[r] = "209"
  /\ \/ /\ pipeline' = [pipeline EXCEPT ![r] = "running"]
        /\ req_pc' = [req_pc EXCEPT ![r] = "210"]
        /\ UNCHANGED response
     \/ /\ response' = [response EXCEPT ![r] = 500]
        /\ req_pc' = [req_pc EXCEPT ![r] = "done"]
        /\ UNCHANGED pipeline
  /\ UNCHANGED <<_current_proc, mon_pc>>
  /\ UNCHANGED <<schedVars, beforeLater, taskVars, progressVars, escalateVars>>

\* 210-217: _current_proc = proc
ServerTrack(r) ==
  /\ req_pc[r] = "210"
  /\ _current_proc' = r
  /\ req_pc' = [req_pc EXCEPT ![r] = "230"]
  /\ UNCHANGED <<response, pipeline, mon_pc>>
  /\ UNCHANGED <<schedVars, beforeLater, taskVars, progressVars, escalateVars>>

\* 230-239: the monitor thread is started and the request answered
ServerMonitorStart(r) ==
  /\ req_pc[r] = "230"
  /\ mon_pc' = [mon_pc EXCEPT ![r] = "222"]
  /\ response' = [response EXCEPT ![r] = 200]
  /\ req_pc' = [req_pc EXCEPT ![r] = "done"]
  /\ UNCHANGED <<_current_proc, pipeline>>
  /\ UNCHANGED <<schedVars, beforeLater, taskVars, progressVars, escalateVars>>

\* the pipeline process launched for request r exits
PipelineExit(r) ==
  /\ pipeline[r] = "running"
  /\ pipeline' = [pipeline EXCEPT ![r] = "exited"]
  /\ UNCHANGED <<req_pc, response, _current_proc, mon_pc>>
  /\ UNCHANGED <<schedVars, beforeLater, taskVars, progressVars, escalateVars>>

\* 222-228: p.wait() returns; _reset_proc_state(p) is entered
MonitorWait(r) ==
  /\ mon_pc[r] = "222"
  /\ pipeline[r] = "exited"
  /\ mon_pc' = [mon_pc EXCEPT ![r] = "83"]
  /\ UNCHANGED <<req_pc, response, _current_proc, pipeline>>
  /\ UNCHANGED <<schedVars, beforeLater, taskVars, progressVars, escalateVars>>

\* 83-84: if proc is not None and proc is not _current_proc: return
MonitorTest(r) ==
  /\ mon_pc[r] = "83"
  /\ mon_pc' = [mon_pc EXCEPT ![r] = IF _current_proc # r THEN "done"
                                     ELSE "85"]
  /\ UNCHANGED <<req_pc, response, _current_proc, pipeline>>
  /\ UNCHANGED <<schedVars, beforeLater, taskVars, progressVars, escalateVars>>

\* 85-87: _current_proc = None
MonitorClear(r) ==
  /\ mon_pc[r] = "85"
  /\ _current_proc' = 0
  /\ mon_pc' = [mon_pc EXCEPT ![r] = "done"]
  /\ UNCHANGED <<req_pc, response, pipeline>>
  /\ UNCHANGED <<schedVars, beforeLater, taskVars, progressVars, escalateVars>>

LaterIdle == TaskIdle /\ ProgressIdle /\ EscalateIdle /\ ServerIdle

(* ------------------------- specifications ------------------------------ *)
\* the groups added after the parser's, not in use
RestIdle == CombineIdle /\ CellIdle /\ TileIdle /\ ConfigIdle /\ LaterIdle

Init == SchedInit /\ BuildIdle /\ ParseIdle /\ RestIdle

Next ==
  \/ handle_term
  \/ \E who \in {"main", "handler"} : cancel_all_kill_containers(who)
  \/ \E who \in {"main", "handler"} : cancel_all_clear_containers(who)
  \/ \E who \in {"main", "handler"} : cancel_all_procs(who)
  \/ TilingDone
  \/ Construct
  \/ \E i \in 1..3 : Ensure(i)
  \/ Entry
  \/ SeqLoop
  \/ SeqReturn
  \/ LaunchAvailable
  \/ DispatchLoop
  \/ AfterCancelAll702
  \/ ShutdownBegin
  \/ ShutdownJoin
  \/ MainFinally
  \/ MainEnd
  \/ \E j \in Jobs : WorkerStart(j)
  \/ \E j \in Jobs : RunPopen(j)
  \/ \E j \in Jobs : RunWait(j)
  \/ \E j \in Jobs : RunEscalate(j)
  \/ \E j \in Jobs : RunJudge(j)
  \/ \E j \in Jobs : RunFinallyProcTest(j)
  \/ \E j \in Jobs : RunFinallyProcRemove(j)
  \/ \E j \in Jobs : RunFinallyContTest(j)
  \/ \E j \in Jobs : RunFinallyContRemove(j)
  \/ \E j \in Jobs : RunFinallyKill(j)
  \/ \E j \in Jobs : Progress(j)
  \/ \E j \in Jobs : ProcExit(j)

Spec == Init /\ [][Next]_vars

InitBuild == BuildInit /\ ParseIdle /\ RestIdle

NextBuild ==
  \/ BuildNormalize
  \/ BuildCheckRoot
  \/ BuildPreStart
  \/ BuildScanTiles
  \/ BuildTasks
  \/ BuildDispatch

SpecBuild == InitBuild /\ [][NextBuild]_vars

InitParse ==
  /\ ParseInit
  /\ BuildIdle
  /\ RestIdle
  /\ SchedInit
  /\ max_parallel_encodes = 1

NextParse ==
  \/ ParseHeader
  \/ ParseUnit
  \/ ParseEnd

SpecParse == InitParse /\ [][NextParse]_vars

InitCombine ==
  /\ CombineInit
  /\ CellIdle
  /\ TileIdle
  /\ ConfigIdle
  /\ LaterIdle
  /\ ParseIdle
  /\ BuildIdle
  /\ SchedInit
  /\ max_parallel_encodes = 1

NextCombine ==
  \/ CombineCheck
  \/ CombineMkdir
  \/ CombineRead
  \/ CombineSelect
  \/ CombineWrite

SpecCombine == InitCombine /\ [][NextCombine]_vars

InitCell ==
  /\ CellInit
  /\ CombineIdle
  /\ TileIdle
  /\ ConfigIdle
  /\ LaterIdle
  /\ ParseIdle
  /\ BuildIdle
  /\ SchedInit
  /\ max_parallel_encodes = 1

NextCell ==
  \/ CellFloor
  \/ CellClip
  \/ CellTile

SpecCell == InitCell /\ [][NextCell]_vars

InitTile ==
  /\ TileInit
  /\ ConfigIdle
  /\ CellIdle
  /\ CombineIdle
  /\ LaterIdle
  /\ ParseIdle
  /\ BuildIdle
  /\ SchedInit
  /\ max_parallel_encodes = 1

NextTile ==
  \/ TileStop
  \/ TileStart
  \/ TileSegment
  \/ \E f \in 1..MaxFrames : TileProcessFrame(f)
  \/ TileResult
  \/ TileSegmentEnd
  \/ TileManifest

SpecTile == InitTile /\ [][NextTile]_vars

InitConfig ==
  /\ ConfigInit
  /\ TileIdle
  /\ CellIdle
  /\ CombineIdle
  /\ LaterIdle
  /\ ParseIdle
  /\ BuildIdle
  /\ SchedInit
  /\ max_parallel_encodes = 1

NextConfig ==
  \/ MainMkdirs
  \/ MainInitLog
  \/ MainValidateSegment
  \/ MainValidateTiling
  \/ MainValidateRuntime
  \/ MainValidateParallel
  \/ MainResolveThreads
  \/ MainQP
  \/ MainStartPipeline

SpecConfig == InitConfig /\ [][NextConfig]_vars

InitTask ==
  /\ TaskInit
  /\ ServerIdle
  /\ ProgressIdle
  /\ EscalateIdle
  /\ ConfigIdle
  /\ TileIdle
  /\ CellIdle
  /\ CombineIdle
  /\ ParseIdle
  /\ BuildIdle
  /\ SchedInit
  /\ max_parallel_encodes = 1

NextTask ==
  \/ TaskBuild
  \/ \E k \in 1..4 : TaskEncode(k)

SpecTask == InitTask /\ [][NextTask]_vars

InitProgress ==
  /\ ProgressInit
  /\ ServerIdle
  /\ EscalateIdle
  /\ TaskIdle
  /\ ConfigIdle
  /\ TileIdle
  /\ CellIdle
  /\ CombineIdle
  /\ ParseIdle
  /\ BuildIdle
  /\ SchedInit
  /\ max_parallel_encodes = MaxParallel

NextProgress ==
  \/ ProgressStop
  \/ \E j \in Jobs :
       \/ ProgressTest(j)
       \/ ProgressAcquire(j)
       \/ ProgressRead(j)
       \/ ProgressCount(j)
       \/ ProgressWrite(j)

SpecProgress == InitProgress /\ [][NextProgress]_vars

InitEscalate ==
  /\ EscalateInit
  /\ ServerIdle
  /\ ProgressIdle
  /\ TaskIdle
  /\ ConfigIdle
  /\ TileIdle
  /\ CellIdle
  /\ CombineIdle
  /\ ParseIdle
  /\ BuildIdle
  /\ SchedInit
  /\ max_parallel_encodes = MaxParallel

NextEscalate ==
  \/ EscCancelAllStart
  \/ EscCancelAllContainer
  \/ EscCancelAllSignal
  \/ EscCancelAllGrace
  \/ EscCancelAllKillWait
  \/ EscCancelAllEnd
  \/ \E j \in EscJobs :
       \/ EscWorkerExit(j)
       \/ EscRunWait(j)
       \/ EscRunTerminate(j)
       \/ EscRunGrace(j)
       \/ EscRunKillWait(j)

SpecEscalate == InitEscalate /\ [][NextEscalate]_vars

InitServer ==
  /\ ServerInit
  /\ EscalateIdle
  /\ ProgressIdle
  /\ TaskIdle
  /\ ConfigIdle
  /\ TileIdle
  /\ CellIdle
  /\ CombineIdle
  /\ ParseIdle
  /\ BuildIdle
  /\ SchedInit
  /\ max_parallel_encodes = MaxParallel

NextServer ==
  \E r \in Requests :
    \/ ServerRequest(r)
    \/ ServerTest(r)
    \/ ServerPopen(r)
    \/ ServerTrack(r)
    \/ ServerMonitorStart(r)
    \/ PipelineExit(r)
    \/ MonitorWait(r)
    \/ MonitorTest(r)
    \/ MonitorClear(r)

SpecServer == InitServer /\ [][NextServer]_vars

(* ======================= properties of the scheduler =================== *)
\* A job is Running while its worker process is alive.
Running(j) == proc[j] = "alive"
RunningJobs == {j \in Jobs : Running(j)}

\* encode_tiles_with_qp_pairs has given control back to main.
Returned == mainpc \in {"ret", "call402", "finished", "exited"}

\* C1: at every instant the number of jobs whose worker process is running
\* is at most max_parallel_encodes (>= 1), in the sequential and in the
\* parallel path and for every interleaving of the threads.
C1_AtMostMaxParallelRunning ==
  Cardinality(RunningJobs) <= max_parallel_encodes

\* C1 witness: the parallel path with every slot taken by a running worker
\* while a further job waits for its dispatch.
C1_Witness ==
  /\ max_parallel_encodes >= 2
  /\ Cardinality(RunningJobs) = max_parallel_encodes
  /\ \E j \in Jobs : wpc[j] = "idle"

\* C2 (as claimed): once the cancellation signal is raised, no worker
\* process is started any more.
C2_NoStartAfterCancel ==
  [][cancel_requested => \A j \in Jobs : proc[j] = "none" => proc'[j] = "none"]_vars

\* C3 (as claimed, its safety half): encode_tiles_with_qp_pairs gives
\* control back to its caller only when no job is Running any more.
C3_ReturnsOnlyWhenNoJobRunning ==
  Returned => RunningJobs = {}

\* C4 (as claimed): when run() has ended for a job whose worker it started,
\* _kill_container has been called on the job's container.
C4_CleanupOnEveryExit ==
  \A j \in Jobs : (wpc[j] = "done" /\ proc[j] # "none") => killed[j]

\* C5 (as claimed): once a job has failed (non-zero exit, no cancellation
\* requested) no further job is dispatched and the batch does not end
\* normally.
C5_FailureIsFatal ==
  [][(\E j \in Jobs : outcome[j] = "failed")
       => /\ \A k \in Jobs : wpc[k] = "idle" => wpc'[k] = "idle"
          /\ mainpc' # "finished"]_vars

\* C6: while the cancellation signal is raised no job becomes Failed and
\* no job raises SystemExit: a worker stopped by the cancellation ends as
\* Cancelled whatever its exit code.
C6_CancelledNeverFailed ==
  [][cancel_requested =>
       \A j \in Jobs : /\ outcome[j] # "failed" => outcome'[j] # "failed"
                       /\ exc[j] # "SystemExit" => exc'[j] # "SystemExit"]_vars

\* C6 witness: a worker that was stopped by the cancellation (its container
\* was killed, it exited with a non-zero code) and whose job is Cancelled.
C6_Witness ==
  \E j \in Jobs : /\ outcome[j] = "cancelled"
                  /\ proc[j] = "exited"
                  /\ killed[j]
                  /\ wpc[j] = "done"
                  /\ exc[j] = "none"

\* C7: the cancellation signal observed by the scheduler and the runner,
\* _cancel_requested(stop_event), is never cleared once it is set.
C7_CancelMonotonic ==
  [][cancel_requested => cancel_requested']_vars

\* C7 witness: the runner was constructed after the signal was raised: its
\* constructor has reset the class-level flags and the signal is still
\* observed through stop_event.
C7_Witness ==
  /\ mainpc = "ensure_repo"
  /\ stop_event
  /\ ~CANCEL_REQUESTED /\ ~CANCEL_EVENT
  /\ capc.handler = "none"

(* ==================== properties of the job graph builder ============== *)
\* C8: the job list has exactly T * Q jobs for T tile directories and Q QP
\* sets, QP-major and tile-minor: the job at position (q-1)*T + t is the
\* q-th QP set paired with the t-th tile directory in sorted order.
C8_JobListIsQPMajorProduct ==
  bpc = "dispatch" =>
    LET D == DOMAIN tiles_root.dirs
        T == Cardinality(D)
        Q == Len(qp_pairs)
    IN /\ Len(tasks) = T * Q
       /\ \A q \in 1..Q, t \in 1..T :
            LET task == tasks[(q - 1) * T + t]
            IN /\ task.qp_idx = q - 1
               /\ task.qp = qp_pairs[q].items
               /\ task.dir \in D
               /\ Cardinality({d \in D : LexLess(d, task.dir)}) = t - 1

\* C8 witness: two QP sets and the two tile directories "10" and "2", whose
\* sorted order is not their numeric order.
C8_Witness ==
  /\ bpc = "dispatch"
  /\ Len(qp_pairs) = 2
  /\ qp_pairs[1].items # qp_pairs[2].items
  /\ DOMAIN tiles_root.dirs = {<<1, 0>>, <<2>>}
  /\ Len(tasks) = 4

\* The QP list is empty, or an entry lacks a required field or is not a
\* triple.
EmptyOrMalformedQP ==
  \/ qp_pairs = <<>>
  \/ \E i \in 1..Len(qp_pairs) :
       \/ qp_pairs[i].kind = "dict" /\ ~(QPKeys \subseteq qp_pairs[i].keys)
       \/ qp_pairs[i].kind = "list" /\ Len(qp_pairs[i].items) # 3
       \/ qp_pairs[i].kind = "other"

\* Some tile directory holds no file whose stem ends with digits.
TileWithoutNumberedFrames ==
  /\ tiles_root.exists
  /\ \E d \in DOMAIN tiles_root.dirs :
       \A fp \in tiles_root.dirs[d] : \A k \in 0..9 : fp[Len(fp)] # k

\* C9 (as claimed): with an empty or malformed QP list, or a tile directory
\* without numbered frames, encode_tiles_with_qp_pairs ends with a
\* validation error (ValueError) and dispatches no job.
C9_InvalidInputRaises ==
  (EmptyOrMalformedQP \/ TileWithoutNumberedFrames) =>
    /\ dispatched = <<>>
    /\ bpc = "done" => bexc = "ValueError"

\* C9 (amended): no job is dispatched; the call ends with ValueError when
\* the QP list is empty or malformed, and also when a tile directory has
\* no numbered frames unless cancellation was already requested at the
\* check before the start, in which case the call returns without error.
C9_InvalidInputRaisesUnlessCancelled ==
  (EmptyOrMalformedQP \/ TileWithoutNumberedFrames) =>
    /\ dispatched = <<>>
    /\ bpc = "done" =>
         IF EmptyOrMalformedQP \/ ~cancel_requested
         THEN bexc = "ValueError"
         ELSE bexc = "none"

\* C9 witness: a well-formed QP list, a tile directory without numbered
\* frames, no cancellation: the call has ended with ValueError.
C9_Witness ==
  /\ bpc = "done"
  /\ ~EmptyOrMalformedQP
  /\ TileWithoutNumberedFrames
  /\ ~cancel_requested
  /\ bexc = "ValueError"
  /\ dispatched = <<>>

(* ======================== properties of the parser ===================== *)
\* C10 (as claimed): the parser never ends without an error while at least
\* one byte but fewer than size_len bytes remain for the next size field.
C10_ShortSizeFieldRaises ==
  (ppc = "done" /\ pexc = "none") =>
    ~(offset < Len(data) /\ offset + size_len > Len(data))

\* the bytes of the yielded units, one after the other in yield order
RECURSIVE JoinUnits(_)
JoinUnits(us) ==
  IF us = <<>> THEN <<>> ELSE Head(us)[2] \o JoinUnits(Tail(us))

\* The parser stands before a size field that is complete and declares a
\* size reaching past the end of the stream.
AtTruncatedUnit ==
  /\ ppc = "15"
  /\ offset + size_len <= Len(data)
  /\ offset + size_len
       + from_bytes(SubSeq(data, offset + 1, offset + size_len)) > Len(data)

\* C11: whenever the parser comes to a unit whose declared size reaches
\* past the end of the stream it raises the truncation error (ValueError)
\* and yields nothing more; when it has raised it, the units yielded are
\* exactly the units that precede the truncated one: their bytes are the
\* stream between the header and the size field of the truncated unit.
C11_TruncatedUnitRaises ==
  /\ [][AtTruncatedUnit =>
          pexc' = "ValueError" /\ ppc' = "done" /\ units' = units]_vars
  /\ [](pexc = "ValueError" =>
          /\ JoinUnits(units) = SubSeq(data, 2, offset - size_len)
          /\ offset + from_bytes(SubSeq(data, offset - size_len + 1, offset))
               > Len(data))

\* C11 witness: a unit was yielded, then the truncation error was raised
\* for the unit after it.
C11_Witness ==
  /\ pexc = "ValueError"
  /\ Len(units) >= 1
  /\ size_len = 1

\* C12: on an empty stream and on a stream of the header byte alone the
\* parser yields no unit and raises nothing.
C12_EmptyStreamYieldsNothing ==
  Len(data) <= 1 => units = <<>> /\ pexc = "none"

\* C12 witness: the parser has ended on the empty stream.
C12_Witness ==
  ppc = "done" /\ data = <<>> /\ units = <<>> /\ pexc = "none"

\* C13 (as claimed): when the parser has ended without error, the header
\* byte followed by the yielded units, in yield order, is the stream.
C13_RoundTrip ==
  (ppc = "done" /\ pexc = "none") =>
    (IF data = <<>> THEN <<>> ELSE <<data[1]>>) \o JoinUnits(units) = data

(* ====================== properties of the multiplexer ================== *)
\* C14: when the four track lists do not all have the same length,
\* combine_per_segment raises RuntimeError at its first check: no track
\* file is read, the output directory is not made, no segment is written.
C14_MismatchIsFirstCheck ==
  (\E t, u \in Tracks : track_len[t] # track_len[u]) =>
    /\ files_read = 0
    /\ ~out_dir_created
    /\ combined = <<>>
    /\ cpc \in {"34", "done"}
    /\ cpc = "done" => cexc = "RuntimeError"

\* C14 witness: three lists of two files and one of a single file; the
\* call has ended with RuntimeError.
C14_Witness ==
  /\ cpc = "done"
  /\ cexc = "RuntimeError"
  /\ track_len = [t \in Tracks |-> IF t = "attr" THEN 1 ELSE 2]

\* the k-th unit (k = 1, 2) of a stream, read off the bytes: its size field
\* of L = (header >> 5) + 1 bytes and the payload it declares
UnitStart(bs, k) ==
  LET L == (bs[1] \div 32) + 1
  IN IF k = 1 THEN 1
     ELSE 1 + L + from_bytes(SubSeq(bs, 2, 1 + L))
UnitBytes(bs, k) ==
  LET L == (bs[1] \div 32) + 1
      st == UnitStart(bs, k)
  IN SubSeq(bs, st + 1, st + L + from_bytes(SubSeq(bs, st + 1, st + L)))

\* C15: the output written for segment index i is the header byte of the
\* atlas file, then the first and the second unit of the atlas file, then
\* the second unit of the occupancy, geometry and attribute files, each
\* with its size prefix; there is one output per segment index processed.
C15_CombinedLayout ==
  /\ Len(combined) = seg_i
  /\ (cpc = "done" /\ cexc = "none") => Len(combined) = track_len["atlas"]
  /\ \A i \in 1..Len(combined) :
       LET d == track_data[i]
       IN combined[i] = <<d["atlas"][1]>>
                          \o UnitBytes(d["atlas"], 1)
                          \o UnitBytes(d["atlas"], 2)
                          \o UnitBytes(d["occp"], 2)
                          \o UnitBytes(d["geom"], 2)
                          \o UnitBytes(d["attr"], 2)

\* C15 witness: two segments were written, the first from tracks whose
\* files differ.
C15_Witness ==
  /\ cpc = "done"
  /\ cexc = "none"
  /\ Len(combined) = 2
  /\ track_data[1]["atlas"] # track_data[1]["occp"]
  /\ track_data[1]["geom"] # track_data[1]["attr"]

(* ==================== properties of the tile assignment ================ *)
\* C16: the cell indices after clamping satisfy 0 <= ix < nx, 0 <= iy < ny
\* and 0 <= iz < nz, for points inside the box, on its maximum faces and
\* outside of it; with grid 2x1x1 and a box from 0 to 2 on x (the scenario's
\* [0,10] in units of 5) the point x = 0 goes to tile 0 and x = 2 to tile 1.
C16_CellIndicesInGrid ==
  kpc \in {"49", "done"} =>
    /\ \A ax \in Axes : 0 <= cell_idx[ax] /\ cell_idx[ax] < cell_meta.n[ax]
    /\ (/\ kpc = "done"
        /\ cell_meta.n = <<2, 1, 1>>
        /\ cell_meta.min[1] = 0
        /\ cell_meta.d[1] = <<2, 2>>) =>
         /\ cell_point[1] = 0 => cell_tile = 0
         /\ cell_point[1] = 2 => cell_tile = 1

\* C16 witness: a point on the maximum face of the box on x and outside of
\* the box on y has been assigned and clamped on both axes.
C16_Witness ==
  /\ kpc = "done"
  /\ cell_meta.n[1] = 2
  /\ cell_meta.d[1] = <<2, 2>>
  /\ cell_point[1] = cell_meta.min[1] + 2
  /\ cell_raw[1] = 2
  /\ cell_idx[1] = 1
  /\ cell_raw[2] < 0
  /\ cell_idx[2] = 0

(* ---- tile generator ---- *)
\* the number of tiles of the grid
TotalTiles == grid[1] * grid[2] * grid[3]

\* the boundaries of the segment frame f belongs to
BoundariesOfFrame(f) ==
  LET i == ((f - 1) \div segment_size) * segment_size
  IN _compute_segment_boundaries(
       SubSeq(frame_paths, i + 1,
              IF i + segment_size < Len(frame_paths)
              THEN i + segment_size ELSE Len(frame_paths)),
       grid)

\* tile t of frame f receives no row of the frame
EmptyTile(f, t) ==
  rows_of_tile(frame_paths[f].points, t, BoundariesOfFrame(f).meta) = <<>>

\* C17: for every frame partitioned with success and every tile id t,
\* exactly one sub-frame is written and it is never empty; a tile that
\* receives no row of the frame holds exactly one row, located at the
\* centroid of the segment, with every other attribute zero.
C17_PlaceholderAtCentroid ==
  \A f \in 1..Len(frame_paths) :
    frame_state[f] = "ok" =>
      /\ Len(tile_files[f]) = TotalTiles
      /\ \A t \in 0..(TotalTiles - 1) :
           /\ tile_files[f][t + 1] # <<>>
           /\ EmptyTile(f, t) =>
                /\ Len(tile_files[f][t + 1]) = 1
                /\ tile_files[f][t + 1][1][4] = 0
                /\ \A ax \in Axes :
                     tile_files[f][t + 1][1][ax]
                         * BoundariesOfFrame(f).centroid[ax][2]
                       = BoundariesOfFrame(f).centroid[ax][1] * 1000000

\* C18: a failure while one frame is partitioned (reading it, assigning
\* its rows to tiles, writing a sub-frame) is logged and reported as the
\* result of that frame, and does not abort the run.
C18_FrameFailureDoesNotAbort ==
  \A f \in 1..Len(frame_paths) :
    frame_state[f] \in {"read_failed", "raised"} =>
      /\ texc = "none"
      /\ tpc = "done" => (reported[f] = "failure" /\ f \in tlog)

\* the segments whose frames were handed to the pool
PartitionedSegments ==
  {((f - 1) \div segment_size) + 1 :
     f \in {g \in 1..Len(frame_paths) : frame_state[g] # "pending"}}

\* C19: after every run on a non-empty list of frames the manifest exists,
\* was written exactly once, and maps the index of every partitioned
\* segment to n_x*n_y*n_z tile records whose ids are 0..n_x*n_y*n_z-1, each
\* exactly once.
C19_ManifestAfterEveryRun ==
  (tpc = "done" /\ frame_paths # <<>>) =>
    /\ manifest_writes = 1
    /\ DOMAIN manifest = PartitionedSegments
    /\ \A s \in DOMAIN manifest :
         /\ Len(manifest[s]) = TotalTiles
         /\ \A t \in 0..(TotalTiles - 1) :
              Cardinality({k \in 1..Len(manifest[s]) :
                             manifest[s][k].id = t}) = 1

(* ---- main(): configuration errors ---- *)
\* C20: when main() ends with a configuration error (grid, segment size,
\* GoF multiple, parallelism, threads, QP list), no output or log directory
\* was created, no log file was written and no stage of the pipeline began.
C20_ConfigErrorTouchesNothing ==
  gexc # "none" =>
    /\ ~out_dirs_created
    /\ ~log_dirs_created
    /\ run_log = <<>>
    /\ ~stage_started

Pending(j) == wpc[j] \in {"idle", "queued"}

\* C22: at every instant the jobs dispatched so far are a prefix of the job
\* list: a job is dispatched when all jobs before it have been, each job is
\* dispatched at most once, and a job that reached a terminal state keeps
\* it and is never Pending again.
C22_DispatchIsPrefixOfJobList ==
  /\ [](\A j \in Jobs :
          /\ (wpc[j] # "idle") <=> (j <= next_task_idx)
          /\ outcome[j] # "none" => ~Pending(j))
  /\ [][\A j \in Jobs :
          /\ (wpc[j] = "idle" /\ wpc'[j] # "idle") =>
               (j = next_task_idx + 1 /\ next_task_idx' = j)
          /\ wpc[j] # "idle" => wpc'[j] # "idle"
          /\ ~Pending(j) => wpc'[j] # "queued"
          /\ outcome[j] # "none" => outcome'[j] = outcome[j]]_vars

\* two jobs dispatched, the first one ended, the third not yet dispatched
C22_Witness ==
  /\ next_task_idx = 2
  /\ outcome[1] = "succeeded"
  /\ Executing(2)
  /\ wpc[3] = "idle"

(* ---- scheduler: the registry of active workers ---- *)
\* the worker of job j is registered by run() and not yet removed by it
Registered(j) == wpc[j] \in {"wait", "termwait", "j437", "f442"}

\* C23: the registry is protected by a mutex: under every interleaving of
\* the worker threads and cancel_all() no registry operation fails because
\* the registry changed between a test and the update, and no registration
\* is lost: a registered container is in ACTIVE_CONTAINERS until it is
\* killed or run() removes it.
C23_RegistryMutuallyExclusive ==
  \A j \in Jobs :
    /\ exc[j] # "ValueError"
    /\ (Registered(j) /\ ~killed[j]) => j \in ACTIVE_CONTAINERS

(* ---- scheduler: the progress counter ---- *)
\* C28: in a batch that ends without cancellation, completed_tasks equals
\* the number of jobs that reached Succeeded or Failed: every normal
\* completion of a job, with exit code 0 or not, moves the counter by one.
C28_CompletedCountsEndedJobs ==
  (mainpc \in {"finished", "exited"} /\ ~cancel_requested) =>
    completed_tasks =
      Cardinality({j \in Jobs : outcome[j] \in {"succeeded", "failed"}})

(* ---- job graph builder: frame sequences ---- *)
\* the files of tile directory d whose stem ends with a digit
NumberedFrames(d) == {fp \in tiles_root.dirs[d] : IsDigit(fp[Len(fp)])}

\* the scan of the tile directories (603-620) has been made
TilesScanned ==
  /\ normalized_pairs # <<>>
  /\ tiles_root.exists
  /\ ~stop_event
  /\ bpc \in {"622", "dispatch", "done"}

\* C26: for every tile directory that holds at least one frame file with a
\* trailing numeric suffix, _derive_frame_sequence returns the pattern
\* prefix + %0Wd + .ply with W the largest digit width over the numbered
\* frames, start = the smallest frame index, count = the number of numbered
\* frames.
C26_FrameSequenceOfNumberedTiles ==
  (/\ TilesScanned
   /\ DOMAIN tiles_root.dirs # {}
   /\ \A d \in DOMAIN tiles_root.dirs : NumberedFrames(d) # {}) =>
    /\ bexc = "none"
    /\ Len(tile_infos) = Cardinality(DOMAIN tiles_root.dirs)
    /\ \A i \in 1..Len(tile_infos) :
         LET numbered == NumberedFrames(tile_infos[i].dir)
             r == tile_infos[i].params
         IN /\ \E fp \in numbered : r.prefix = prefix_of(fp)
            /\ r.width = SetMax({Len(digits_of(fp)) : fp \in numbered})
            /\ r.startFrameNumber = SetMin({int(digits_of(fp)) : fp \in numbered})
            /\ r.frameCount = Cardinality(numbered)

(* ---- the parameters and files of each job ---- *)
\* encode_task has run for job k
Ran(k) == k \in 1..Len(job_list) /\ worker_output[k] # NoFile

\* the tile of job k
TileOfJob(k) ==
  CHOOSE t \in {job_tiles[i] : i \in 1..Len(job_tiles)} :
    t.dir = job_list[k].dir

\* the three sources of the parameters of job k
InferredOf(k) ==
  [uncompressedDataPath |-> TileOfJob(k).pattern,
   startFrameNumber |-> TileOfJob(k).start_frame,
   frameCount |-> TileOfJob(k).frame_count]
QPConfigOf(k) ==
  [occupancyMapQP |-> job_list[k].qp[1],
   geometryQP |-> job_list[k].qp[2],
   attributeQP |-> job_list[k].qp[3]]

\* C27 (as claimed): the parameters of a worker are the merge of the base
\* parameters, then the tile's inferred values, then the job's QPConfig,
\* later sources winning: a key present in more than one source has the
\* value of the latest.
C27_LaterSourceWins ==
  \A k \in 1..Len(job_list) :
    Ran(k) =>
      /\ \A key \in DOMAIN QPConfigOf(k) :
           worker_params[k][key] = QPConfigOf(k)[key]
      /\ \A key \in DOMAIN InferredOf(k) \cap DOMAIN base_params :
           worker_params[k][key] = InferredOf(k)[key]

\* C27 (as the code has it): the QPConfig wins over the base parameters;
\* the tile's inferred values only fill the keys the base parameters do not
\* define, so for a key present in both the worker receives the base value.
C27_BaseWinsOverInferred ==
  \A k \in 1..Len(job_list) :
    Ran(k) =>
      /\ \A key \in DOMAIN QPConfigOf(k) :
           worker_params[k][key] = QPConfigOf(k)[key]
      /\ \A key \in DOMAIN InferredOf(k) :
           worker_params[k][key] =
             IF key \in DOMAIN base_params THEN base_params[key]
             ELSE InferredOf(k)[key]

\* a job whose base parameters and tile both give frameCount, with
\* different values
C27_Witness ==
  \E k \in 1..Len(job_list) :
    /\ Ran(k)
    /\ "frameCount" \in DOMAIN base_params
    /\ base_params["frameCount"] # InferredOf(k)["frameCount"]
    /\ worker_params[k]["frameCount"] = base_params["frameCount"]

\* C29: with or without an encoding log directory, no two jobs of a batch
\* write their worker's output to the same file.
C29_WorkerLogIsJobExclusive ==
  \A i, j \in 1..Len(job_list) :
    (Ran(i) /\ Ran(j) /\ i # j /\ worker_log[i] # NoFile) =>
      worker_log[i] # worker_log[j]

\* C30: distinct jobs of one batch have distinct output file names, so no
\* two jobs write the same output bitstream.
C30_OutputNamesAreDistinct ==
  \A i, j \in 1..Len(job_list) :
    (Ran(i) /\ Ran(j) /\ i # j) => worker_output[i] # worker_output[j]

(* ---- the progress lines of the run log ---- *)
\* C24: for every interleaving of concurrent job completions the
\* "Encoding progress: k/total" lines appear in the run log in strictly
\* increasing k, and the two lines of one job are never interleaved with
\* another job's lines.
C24_ProgressLinesInOrder ==
  /\ \A a, b \in 1..Len(shared_log) :
       (/\ a < b
        /\ shared_log[a].line = "Encoding progress"
        /\ shared_log[b].line = "Encoding progress") =>
         shared_log[a].k < shared_log[b].k
  /\ \A a \in 1..Len(shared_log) :
       shared_log[a].line = "Completed" =>
         (a < Len(shared_log) =>
            /\ shared_log[a + 1].job = shared_log[a].job
            /\ shared_log[a + 1].line = "Encoding progress")

(* ---- the order of the signals of a cancellation ---- *)
\* C25: when a running job is cancelled, a force-kill of its process or of
\* its container is issued only after graceful termination was requested
\* and the wait of the grace window ended with the worker still alive (so
\* a worker that exits within the window is never force-killed).
\* grace_elapsed[j] and sent[j] only grow, so a force signal issued before
\* the window has ended shows in the state that follows it.
C25_ForceOnlyAfterGraceWindow ==
  \A j \in EscJobs :
    sent[j] \cap ForceSignals # {} =>
      /\ sent[j] \cap GracefulSignals # {}
      /\ grace_elapsed[j]

(* ================== more properties of the parser ====================== *)
\* A well-formed stream from offset off on: nothing is left, or a size
\* field of L bytes declares S >= 1 payload bytes that are all there and
\* the rest is well-formed.
RECURSIVE WellFormedFrom(_, _, _)
WellFormedFrom(bs, L, off) ==
  \/ off = Len(bs)
  \/ /\ off + L <= Len(bs)
     /\ LET S == from_bytes(SubSeq(bs, off + 1, off + L))
        IN /\ S >= 1
           /\ off + L + S <= Len(bs)
           /\ WellFormedFrom(bs, L, off + L + S)

WellFormed(bs) ==
  /\ bs # <<>>
  /\ WellFormedFrom(bs, (bs[1] \div 32) + 1, 1)

\* the value of the bytes bs read as a big-endian number
BigEndian(bs) ==
  LET n == Len(bs)
      pow[k \in 0..n] == IF k = 0 THEN 1 ELSE 256 * pow[k - 1]
      sum[k \in 0..n] == IF k = 0 THEN 0
                         ELSE sum[k - 1] + bs[k] * pow[n - k]
  IN sum[n]

\* C31: on a well-formed stream the parser yields one pair per unit in
\* stream order: L is (header byte >> 5) + 1, each yielded fullUnitBytes is
\* L size bytes holding the big-endian length S followed by exactly S
\* payload bytes, unitType is bits 3-7 of the first payload byte, the
\* units yielded so far are the bytes of the stream after the header up to
\* the parser's offset, and at the end they are the whole stream; parsing
\* the same bytes again gives the same sequence.
C31_WellFormedStreamParses ==
  WellFormed(data) =>
    /\ pexc = "none"
    /\ ppc # "8" =>
         /\ size_len = (data[1] \div 32) + 1
         /\ JoinUnits(units) = SubSeq(data, 2, offset)
         /\ \A i \in 1..Len(units) :
              LET full == units[i][2]
                  S == BigEndian(SubSeq(full, 1, size_len))
              IN /\ Len(full) = size_len + S
                 /\ S >= 1
                 /\ units[i][1] = (full[size_len + 1] \div 8) % 32
    /\ ppc = "done" =>
         /\ <<data[1]>> \o JoinUnits(units) = data
         /\ list_parse_v3c_units(data) = [err |-> "none", units |-> units]

\* C31 witness: a well-formed stream of two units of different types was
\* parsed to its end.
C31_Witness ==
  /\ ppc = "done"
  /\ WellFormed(data)
  /\ Len(units) = 2
  /\ units[1][1] # units[2][1]
  /\ units[1][1] # units[1][2][size_len + 1] % 32

\* The parser has ended with an error at a unit whose size field, the
\* size_len bytes before offset, declares size 0.
EndedAtZeroSizeUnit ==
  /\ ppc = "done"
  /\ pexc # "none"
  /\ from_bytes(SubSeq(data, offset - size_len + 1, offset)) = 0

\* C32 (as claimed): when a unit declares size 0, so that there is no first
\* payload byte to take the type from, the parser fails with the error
\* class it uses for truncated units (ValueError), with no other kind of
\* error, and the unit is not yielded.
C32_ZeroSizeIsFormatError ==
  EndedAtZeroSizeUnit =>
    /\ pexc = "ValueError"
    /\ JoinUnits(units) = SubSeq(data, 2, offset - size_len)

(* ================ more properties of the multiplexer =================== *)
\* the decoded type of the k-th unit of track t among the files d
TypeOfUnit(d, t, k) == list_parse_v3c_units(d[t]).units[k][1]

\* C33 (as claimed): every combined segment written is the header byte
\* followed by five units whose decoded types are 0 (VPS), 1 (AD), 2 (OVD),
\* 3 (GVD) and 4 (AVD) in that order, whatever track files were read, as
\* long as they parse without error and hold at least two units each (a
\* segment is written only then).
C33_CombinedUnitTypes ==
  \A i \in 1..Len(combined) :
    LET d == track_data[i]
    IN <<TypeOfUnit(d, "atlas", 1), TypeOfUnit(d, "atlas", 2),
         TypeOfUnit(d, "occp", 2), TypeOfUnit(d, "geom", 2),
         TypeOfUnit(d, "attr", 2)>> = <<0, 1, 2, 3, 4>>

\* the tracks of the files d whose parse raises the truncation error
TruncatedTracks(d) ==
  {t \in Tracks : list_parse_v3c_units(d[t]).err = "ValueError"}

\* C34: a parse error (ValueError) in a track file of segment index k ends
\* the whole run: the segment that fails is the last one read, no output
\* is written for it or for a later index, the outputs written are those
\* of the indices below k in increasing order, and combine_per_segment
\* ends by raising the error.
C34_ParseErrorAbortsRun ==
  \A i \in 1..Len(track_data) :
    TruncatedTracks(track_data[i]) # {} =>
      /\ i = Len(track_data)
      /\ seg_i = i - 1
      /\ Len(combined) = i - 1
      /\ cpc \in {"52", "done"}
      /\ cpc = "done" => cexc = "ValueError"

\* C34 witness: the first segment was written, the second one failed on a
\* truncated unit in the attribute track only.
C34_Witness ==
  /\ cpc = "done"
  /\ cexc = "ValueError"
  /\ Len(combined) = 1
  /\ Len(track_data) = 2
  /\ TruncatedTracks(track_data[2]) = {"attr"}

\* the five units selected from the files d, as parse_v3c_units yields
\* them: the type and the bytes with the size prefix
SelectedUnits(d) ==
  << <<TypeOfUnit(d, "atlas", 1), UnitBytes(d["atlas"], 1)>>,
     <<TypeOfUnit(d, "atlas", 2), UnitBytes(d["atlas"], 2)>>,
     <<TypeOfUnit(d, "occp", 2), UnitBytes(d["occp"], 2)>>,
     <<TypeOfUnit(d, "geom", 2), UnitBytes(d["geom"], 2)>>,
     <<TypeOfUnit(d, "attr", 2), UnitBytes(d["attr"], 2)>> >>

\* the combined segment i parses again into the five selected units
ReparsesToSelection(i) ==
  list_parse_v3c_units(combined[i]) =
    [err |-> "none", units |-> SelectedUnits(track_data[i])]

\* the four files d start with the same header byte
SharedHeader(d) == \A t \in Tracks : d[t][1] = d["atlas"][1]

\* C38 (as claimed): every combined segment written is a well-formed
\* sample stream: parsing it yields exactly the five selected units, byte
\* for byte and in order, whenever the four track files parse without
\* error, also when their header bytes differ from the atlas header byte.
C38_CombinedReparses ==
  \A i \in 1..Len(combined) : ReparsesToSelection(i)

\* C38 (amended): every combined segment written from four track files
\* that share the header byte parses again into exactly the five selected
\* units, byte for byte and in order.
C38_CombinedReparsesWithSharedHeader ==
  \A i \in 1..Len(combined) :
    SharedHeader(track_data[i]) => ReparsesToSelection(i)

\* C38 witness: a segment was written from track files that share the
\* header byte and are not all the same file.
C38_Witness ==
  /\ Len(combined) >= 1
  /\ SharedHeader(track_data[1])
  /\ track_data[1]["atlas"] # track_data[1]["occp"]
  /\ ReparsesToSelection(1)

(* ================ more properties of the tile generator ================ *)
\* C35: partitioning goes by phases.  A frame is handed to the pool only
\* while its segment is the current one and after the boundaries of that
\* segment were computed, and its sub-frames are cut with those
\* boundaries; when the loop stands at a segment, every frame of the
\* segments before it is finished (or its segment had no readable row and
\* was passed over) and no frame of a later segment was touched; the
\* segments start at multiples of segment_size, so each holds segment_size
\* consecutive frames but possibly the last, in increasing order.
C35_PhaseOrderedPartitioning ==
  /\ seg_start % segment_size = 0
  /\ tpc = "218" =>
       /\ seg_start < Len(frame_paths)
       /\ boundaries_data = BoundariesOfFrame(seg_start + 1)
       /\ ~boundaries_data.none
  /\ \A f \in 1..Len(frame_paths) :
       /\ frame_state[f] # "pending" =>
            /\ f <= seg_start + segment_size
            /\ ~BoundariesOfFrame(f).none
            /\ f > seg_start => tpc \in {"218", "done"}
       /\ f <= seg_start =>
            \/ frame_state[f] \in {"ok", "read_failed"} /\ reported[f] # "none"
            \/ frame_state[f] = "pending" /\ BoundariesOfFrame(f).none
       /\ frame_state[f] = "ok" =>
            tile_files[f] = [k \in 1..TotalTiles |->
                               sub_frame(frame_paths[f], k - 1,
                                         BoundariesOfFrame(f))]

\* C35 witness: three frames in segments of two were all partitioned, the
\* last segment holding one frame and having boundaries of its own.
C35_Witness ==
  /\ tpc = "done"
  /\ texc = "none"
  /\ Len(frame_paths) = 3
  /\ segment_size = 2
  /\ \A f \in 1..3 : frame_state[f] = "ok"
  /\ BoundariesOfFrame(1) # BoundariesOfFrame(3)

\* the indices of the segments that start at or after offset i
SegmentsFrom(i) == {k \in 1..MaxFrames : (k - 1) * segment_size >= i}

\* C36: the stop request is looked at between segments only.  A step made
\* at the head of the loop while stop_event is set leaves the loop and
\* starts nothing; and when the loop was left before the last segment,
\* the stop request was the reason, every frame of the
\* segments before is finished (or its segment had no readable row), and
\* of the segments from there on no boundary was computed and no frame
\* touched.
C36_StopOnlyBetweenSegments ==
  /\ [][(tpc = "174" /\ stop_event) =>
          /\ tpc' = "247"
          /\ UNCHANGED <<frame_state, boundaries_per_segment, seg_start,
                         tile_files>>]_vars
  /\ []((tpc \in {"247", "done"} /\ texc = "none"
           /\ seg_start < Len(frame_paths)) =>
          /\ stop_event
          /\ DOMAIN boundaries_per_segment \cap SegmentsFrom(seg_start) = {}
          /\ \A f \in 1..Len(frame_paths) :
               /\ f > seg_start => frame_state[f] = "pending"
                                     /\ tile_files[f] = <<>>
               /\ f <= seg_start =>
                    \/ reported[f] # "none"
                    \/ BoundariesOfFrame(f).none)

\* C36 witness: the stop request came while the first segment was being
\* partitioned; that segment was finished, frame by frame, and the second
\* one was not started.
C36_Witness ==
  /\ tpc = "done"
  /\ texc = "none"
  /\ stop_event
  /\ seg_start = segment_size
  /\ segment_size = 2
  /\ Len(frame_paths) = 3
  /\ reported[1] = "success" /\ reported[2] = "success"
  /\ frame_state[3] = "pending"

\* the cell indices of a row under the boundaries meta, clamped to the grid
ClampedCell(row, meta) ==
  [ax \in Axes |->
     LET raw == floor_index(row[ax], meta.min[ax], meta.d[ax])
     IN IF raw < 0 THEN 0
        ELSE IF raw > meta.n[ax] - 1 THEN meta.n[ax] - 1 ELSE raw]

\* ix*(ny*nz) + iy*nz + iz
CellId(c, n) == c[1] * (n[2] * n[3]) + c[2] * n[3] + c[3]

\* the rows of frame f that belong to tile t, by their positions
RowsOfTile(f, t) ==
  {k \in 1..Len(frame_paths[f].points) :
     CellId(ClampedCell(frame_paths[f].points[k], BoundariesOfFrame(f).meta),
            grid) = t}

\* the rows of the sub-frame of tile t of frame f that are not the
\* placeholder (which is written when no row belongs to the tile)
NonPlaceholder(f, t) ==
  IF RowsOfTile(f, t) = {} THEN <<>> ELSE tile_files[f][t + 1]

\* a row of a frame as it stands in a written file
AsWritten(p) == written_row(<<p[1], 1>>, <<p[2], 1>>, <<p[3], 1>>, p[4])

\* C37: partitioning neither loses nor duplicates points.  For every frame
\* partitioned with success, each row has a tile id ix*(ny*nz) + iy*nz + iz
\* in 0..nx*ny*nz-1 for its clamped cell indices, the sub-frame of a tile
\* holds each row of that tile as many times as the frame does and no
\* other row, so that every row is in exactly one sub-frame and the rows
\* that are not placeholders are, over all sub-frames, the rows of the
\* frame; distinct cells of the grid have distinct ids.
C37_PartitionKeepsEveryPoint ==
  /\ \A c1, c2 \in [Axes -> 0..(MaxGrid - 1)] :
       ((\A ax \in Axes : c1[ax] < grid[ax] /\ c2[ax] < grid[ax])
          /\ CellId(c1, grid) = CellId(c2, grid)) => c1 = c2
  /\ \A f \in 1..Len(frame_paths) :
       frame_state[f] = "ok" =>
         LET pts == frame_paths[f].points
         IN /\ \A k \in 1..Len(pts) :
                 \E t \in 0..(TotalTiles - 1) : k \in RowsOfTile(f, t)
            /\ \A t \in 0..(TotalTiles - 1) :
                 LET sub == NonPlaceholder(f, t)
                 IN /\ Len(sub) = Cardinality(RowsOfTile(f, t))
                    /\ \A j \in 1..Len(sub) :
                         Cardinality({i \in 1..Len(sub) : sub[i] = sub[j]})
                           = Cardinality({k \in RowsOfTile(f, t) :
                                            AsWritten(pts[k]) = sub[j]})

\* C37 witness: a frame of two points was partitioned over a grid of eight
\* tiles; the points went to two tiles and the six others hold
\* placeholders.
C37_Witness ==
  /\ Len(frame_paths) >= 1
  /\ frame_state[1] = "ok"
  /\ TotalTiles = 8
  /\ Len(frame_paths[1].points) = 2
  /\ Cardinality({t \in 0..7 : RowsOfTile(1, t) # {}}) = 2

(* ================== more properties of the scheduler =================== *)
\* the jobs whose worker ran to its own exit with status 0
RanToOwnExit ==
  {j \in Jobs : wpc[j] = "done" /\ proc[j] = "exited"
                  /\ outcome[j] = "succeeded"}

\* C39: in every state of a batch 0 <= completed <= total, and completed
\* counts only jobs whose worker ran to its own exit: the counter moves by
\* one, in the last step of a job whose process has exited by itself, with
\* no cancellation requested (by stop_event or by cancel_all) and no kill
\* of its container before; a job skipped because cancellation was already
\* requested, or stopped by it, leaves the counter alone.
C39_CompletedCountsOnlyOwnExits ==
  /\ [](/\ completed_tasks \in 0..NumJobs
        /\ completed_tasks <= Cardinality(RanToOwnExit))
  /\ [][completed_tasks' # completed_tasks =>
          /\ completed_tasks' = completed_tasks + 1
          /\ \E j \in Jobs :
               /\ wpc[j] # "done" /\ wpc'[j] = "done"
               /\ proc[j] = "exited"
               /\ outcome[j] = "succeeded"
               /\ ~killed[j]
               /\ ~cancel_requested]_vars

\* C39 witness: of three jobs one ran to its exit and was counted, one was
\* stopped by the cancellation and one was skipped without a process.
C39_Witness ==
  /\ completed_tasks = 1
  /\ \E j, k, l \in Jobs :
       /\ j \in RanToOwnExit
       /\ wpc[k] = "done" /\ proc[k] = "exited" /\ killed[k]
            /\ outcome[k] = "cancelled"
       /\ wpc[l] = "done" /\ proc[l] = "none" /\ outcome[l] = "cancelled"

(* ==================== properties of the control server ================= *)
\* C40 (as claimed): the control server runs at most one pipeline process
\* at a time, for every interleaving of the request threads and the
\* monitor threads: never two launched pipelines are running together, and
\* a request answered 409 has launched no process.
C40_AtMostOnePipeline ==
  /\ Cardinality({r \in Requests : pipeline[r] = "running"}) <= 1
  /\ \A r \in Requests : response[r] = 409 => pipeline[r] = "none"

====
